---- MODULE Spec2Model ----
(***************************************************************************)
(* Transform-copy engines of the storage target:                           *)
(*   XactTCObjs (multi-object copy/transform, src/xact/xs/tcobjs.go) and   *)
(*   XactTCB    (bucket copy/transform,       src/unnamed/part_002).       *)
(* Every active target runs one xaction of the job; the targets exchange   *)
(* object payloads and OpcTxnDone control messages over the per-pair FIFO  *)
(* streams of the data mover.                                              *)
(***************************************************************************)
EXTENDS Integers, Sequences, FiniteSets, TLC

\* ---------------------------------------------------------------- bounds
MaxTargets == 2      \* targets in the cluster map
MaxTxns == 1         \* multi-object transactions (jobs) of one TCO xaction
MaxObjs == 1         \* objects one target's local iteration visits
MaxCrash == 1        \* targets that may die during the job
MaxBuckets == 2      \* bucket names
MaxProxies == 2      \* proxies (gateways); proxy 1 is the primary
MaxObjNames == 2     \* valid object names (name 0 is the invalid one)
MaxCallers == 5      \* goroutines that enqueue work concurrently
MaxItems == 2        \* path items after /s3 (the largest stands for "or more")
MaxUploads == 2      \* multipart uploads, and the length of a target's list of them
MaxKeys == 2         \* keys in the body of a multi-delete
MaxLsKeys == 3       \* keys of the bucket that is listed
MaxPageSize == 2     \* keys in a page of the listing
MaxUuid == 2         \* UUIDs of listing jobs
MaxNames == 1        \* names an entry of the namespace cache may have in its directory
MaxDepth == 3        \* names in a path of the namespace cache
MaxIds == 1          \* inode ids, and file sizes
MaxSnapTargets == 3  \* targets of a job whose cluster-map snapshots may differ
MaxRenewals == 3     \* transactions that ask for the bucket xaction
MaxCliArgs == 2      \* object arguments of a command line

\* ------------------------------------------------------ program constants
OpcTxnDone == 27182      \* control opcode: termination ack
OpcObject == 0           \* opcode of an object payload
maxNumInParallel == 4    \* capacity of the work channel
\* timeouts of the configuration, counted in sleep periods of Quiesce
CplaneOperation == 1
MaxKeepalive == 2
SendFileTimeout == 3

Nodes == 1..MaxTargets
Txns == 1..MaxTxns
Pairs == {p \in Nodes \X Nodes : p[1] # p[2]}
SinceCap == MaxKeepalive + 1
TotCap == SendFileTimeout + 1

VARIABLES
  engine,     \* "tco" | "tcb": the xaction kind of the job ("" outside a job)
  nat,        \* smap.CountActiveTs(); the cluster map is fixed
  alive,      \* [Nodes -> BOOLEAN]: the target process is running
  net,        \* [Pairs -> Seq(msg)]: data-mover stream s -> t (FIFO)
  dm,         \* [Nodes -> "nil" | "new" | "open" | "closed"]: the data mover
  rx,         \* [Nodes -> BOOLEAN]: receive handler registered
  err,        \* [Nodes -> STRING]: first error of the xaction ("" when none)
  abrt,       \* [Nodes -> BOOLEAN]: xaction aborted (IsAborted)
  pc,         \* [Nodes -> STRING]: position of the factory and of Run
  left,       \* [Nodes -> Nat]: objects the local iteration has yet to visit
  \* XactTCObjs
  pending,    \* [Nodes -> SUBSET Txns]: keys of r.pending.m
  wiRefc,     \* [Nodes -> [Txns -> Int]]: tcowi.refc of the txn's work item
  wiCnt,      \* [Nodes -> Int]: r.wiCnt
  workCh,     \* [Nodes -> Seq(Txns)]: r.workCh
  cur,        \* [Nodes -> Txns]: the message Run is working on
  \* XactTCB
  refc,       \* [Nodes -> Int]: r.refc
  since,      \* [Nodes -> 0..SinceCap]: mono.Since(r.rxlast), saturating
  tot,        \* [Nodes -> 0..TotCap]: Quiesce's total, saturating
  idle,       \* [Nodes -> Nat]: Quiesce's idle
  qres,       \* [Nodes -> STRING]: what Quiesce returned ("" before it did)
  \* history of the run, per target (see InitHistT)
  hist,
  \* one call of a function on drawn inputs (see the harness below)
  call

\* the S3 gateway (src/ais/prxs3.go) and the cluster's bucket metadata
VARIABLES
  bmd,        \* [Buckets -> props | NoBck]: the BMD, as the primary owns it
  cbmd,       \* the same, as cached by the non-primary proxy (p.owner.bmd)
  smap,       \* SUBSET Nodes: the targets of the cluster map (p.owner.smap)
  gone,       \* SUBSET Buckets: history, buckets a DeleteBucket has destroyed
  madeBy,     \* [Buckets -> STRING]: history, who created the bucket
  resp        \* the gateway's reply to the last request

s3Vars == <<bmd, cbmd, smap, gone, madeBy, resp>>

tcVars == <<engine, nat, alive, net, dm, rx, err, abrt, pc, left,
            pending, wiRefc, wiCnt, workCh, cur,
            refc, since, tot, idle, qres, hist>>

vars == <<tcVars, call, s3Vars>>

tcoVars == <<pending, wiRefc, wiCnt, workCh, cur>>
tcbVars == <<refc, since, tot, idle, qres>>

\* ------------------------------------------------------- bucket metadata
Buckets == 1..MaxBuckets
Proxies == 1..MaxProxies
Primary == 1
NoBck == [present |-> FALSE, access |-> "", versioning |-> FALSE]
NoResp == [op |-> ""]

\* no bucket, no request: the gateway is not part of the run
InitS3Idle ==
  /\ bmd = [b \in Buckets |-> NoBck]
  /\ cbmd = [b \in Buckets |-> NoBck]
  /\ smap = {}
  /\ gone = {}
  /\ madeBy = [b \in Buckets |-> ""]
  /\ resp = NoResp

Targets == 1..nat
Peers(t) == Targets \ {t}

Msg(op, x) == [op |-> op, txn |-> x]

Min(a, b) == IF a < b THEN a ELSE b

NoCall == [fn |-> "", in |-> <<>>, out |-> <<>>]

\* ----------------------------------------------------------------- history
\* begun / committed / dispatched: txns for which Begin / Do / the dispatch of
\* Run ran on the target; completed: txns whose local iteration visited every
\* object without an abort; doneTx: broadcasts of OpcTxnDone, per txn; lateObj:
\* an object payload of a txn was enqueued after the txn's done; earlyDone:
\* a done was broadcast while the iteration still had objects to visit; doneRx:
\* OpcTxnDone messages the receive handler got, per txn; lostDone: OpcTxnDone
\* addressed to the target that the transport dropped, per txn; lostObj: an
\* object payload addressed to the target was dropped; objRx: object
\* payloads the receive handler of XactTCB was called with; opens /
\* closes / unregs: calls of dm.Open / dm.Close / dm.UnregRecv; nilDm: a
\* method of the data mover was called while r.dm was nil; peerDead: a peer
\* was dead when Run ended on the target; removed:
\* deletions of the txn's work item by the receive handler.
InitHistT ==
  [begun |-> {}, committed |-> {}, dispatched |-> {}, completed |-> {},
   doneTx |-> [x \in Txns |-> 0], lateObj |-> FALSE, earlyDone |-> FALSE,
   doneRx |-> [x \in Txns |-> 0], lostDone |-> [x \in Txns |-> 0], lostObj |-> FALSE, objRx |-> 0,
   opens |-> 0, closes |-> 0, unregs |-> 0, nilDm |-> FALSE, peerDead |-> FALSE,
   removed |-> [x \in Txns |-> 0]]

H(t) == hist[t]

\* --------------------------------------------------------------- transport
\* a broadcast that overtakes what the streams hold
BcastAhead(t, m) ==
  [p \in Pairs |-> IF p[1] = t /\ p[2] \in Peers(t) THEN <<m>> \o net[p] ELSE net[p]]

\* dm.Bcast(o): one copy to every other active target of the cluster map
Bcast(t, m) ==
  [p \in Pairs |-> IF p[1] = t /\ p[2] \in Peers(t) THEN Append(net[p], m) ELSE net[p]]

\* dm.Send(o, tsi)
Send(t, to, m) == [net EXCEPT ![<<t, to>>] = Append(@, m)]

\* the xaction's error sink keeps the first error as the job's result
AddErr(t, e) == [err EXCEPT ![t] = IF @ = "" THEN e ELSE @]

\* =============================================================== XactTCObjs

\* Run: nat - 1, the peers that owe this target a done
RefcAtDispatch(n) == n - 1

\* tcoFactory.Start: the work channel and the pending map are made, the data
\* mover is created and registered (when there are peers) and opened, and Run
\* is started.
TcoStart(t) ==
  /\ engine = "tco" /\ alive[t] /\ pc[t] = "none"
  /\ pc' = [pc EXCEPT ![t] = "select"]
  /\ dm' = [dm EXCEPT ![t] = IF nat > 1 THEN "open" ELSE "nil"]
  /\ rx' = [rx EXCEPT ![t] = nat > 1]
  /\ hist' = [hist EXCEPT ![t].opens = IF nat > 1 THEN @ + 1 ELSE @]
  /\ UNCHANGED <<engine, nat, alive, net, err, abrt, left, tcoVars, tcbVars, call, s3Vars>>

\* XactTCObjs.Begin: the txn's work item, refc = 0, goes into r.pending.m
Begin(t, x) ==
  /\ engine = "tco" /\ alive[t] /\ pc[t] \in {"select", "iter"}
  /\ x \notin H(t).begun
  /\ pending' = [pending EXCEPT ![t] = @ \cup {x}]
  /\ wiRefc' = [wiRefc EXCEPT ![t][x] = 0]
  /\ wiCnt' = [wiCnt EXCEPT ![t] = @ + 1]
  /\ hist' = [hist EXCEPT ![t].begun = @ \cup {x}]
  /\ UNCHANGED <<engine, nat, alive, net, dm, rx, err, abrt, pc, left,
                 workCh, cur, tcbVars, call, s3Vars>>

\* XactTCObjs.Do: the commit phase hands the message to Run. The two-phase
\* transaction commits only after every target has begun.
Do(t, x) ==
  /\ engine = "tco" /\ alive[t] /\ pc[t] \in {"select", "iter"}
  /\ x \notin H(t).committed
  /\ \A u \in Targets : x \in H(u).begun
  /\ Len(workCh[t]) < maxNumInParallel
  /\ workCh' = [workCh EXCEPT ![t] = Append(@, x)]
  /\ hist' = [hist EXCEPT ![t].committed = @ \cup {x}]
  /\ UNCHANGED <<engine, nat, alive, net, dm, rx, err, abrt, pc, left,
                 pending, wiRefc, wiCnt, cur, tcbVars, call, s3Vars>>

\* Run, case msg := <-r.workCh, up to the start of the iteration
TcoDispatch(t) ==
  /\ engine = "tco" /\ alive[t] /\ pc[t] = "select"
  /\ workCh[t] # <<>>
  /\ LET x == Head(workCh[t]) IN
       /\ workCh' = [workCh EXCEPT ![t] = Tail(@)]
       /\ IF x \notin pending[t]
            THEN /\ pc' = [pc EXCEPT ![t] = "fin"]
                 /\ UNCHANGED <<wiRefc, cur, left, hist>>
            ELSE /\ wiRefc' = [wiRefc EXCEPT ![t][x] = RefcAtDispatch(nat)]
                 /\ cur' = [cur EXCEPT ![t] = x]
                 /\ \E k \in 0..MaxObjs : left' = [left EXCEPT ![t] = k]
                 /\ pc' = [pc EXCEPT ![t] = "iter"]
                 /\ hist' = [hist EXCEPT ![t].dispatched = @ \cup {x}]
  /\ UNCHANGED <<engine, nat, alive, net, dm, rx, err, abrt, pending, wiCnt, tcbVars, call, s3Vars>>

\* tcowi.do: one object of the iteration is copied: locally, or streamed to
\* the peer that owns it, or the copy fails: the error is added and,
\* unless the message says continue-on-error, the job is aborted.
TcoDo(t) ==
  /\ engine = "tco" /\ alive[t] /\ pc[t] = "iter" /\ left[t] > 0
  /\ ~abrt[t]
  /\ \/ /\ left' = [left EXCEPT ![t] = @ - 1]
        /\ UNCHANGED <<net, err, abrt, hist>>
     \/ /\ err' = AddErr(t, "copy")
        /\ left' = [left EXCEPT ![t] = @ - 1]
        /\ UNCHANGED <<net, abrt, hist>>
     \/ /\ dm[t] = "open"
        /\ \E to \in Peers(t) : net' = Send(t, to, Msg(OpcObject, cur[t]))
        /\ hist' = [hist EXCEPT ![t].lateObj = @ \/ H(t).doneTx[cur[t]] > 0]
        /\ left' = [left EXCEPT ![t] = @ - 1]
        /\ UNCHANGED <<err, abrt>>
     \/ /\ err' = AddErr(t, "copy")
        /\ abrt' = [abrt EXCEPT ![t] = TRUE]
        /\ UNCHANGED <<net, left, hist>>
  /\ UNCHANGED <<engine, nat, alive, dm, rx, pc, tcoVars, tcbVars, call, s3Vars>>

\* the iteration of Run has visited every object, or the job was aborted
TcoIterOver(t) == left[t] = 0 \/ abrt[t]

\* Run, after the iteration: aborted or failed goes to fin; otherwise
\* r.sendTerm broadcasts the done (nothing on a single target) and Run goes
\* back to the select.
TcoIterEnd(t) ==
  /\ engine = "tco" /\ alive[t] /\ pc[t] = "iter"
  /\ TcoIterOver(t)
  /\ IF abrt[t]
       THEN /\ pc' = [pc EXCEPT ![t] = "fin"]
            /\ UNCHANGED <<net, hist, left>>
       ELSE /\ net' = IF dm[t] = "nil" THEN net ELSE Bcast(t, Msg(OpcTxnDone, cur[t]))
            /\ hist' = [hist EXCEPT
                 ![t].doneTx[cur[t]] = IF dm[t] = "nil" THEN @ ELSE @ + 1,
                 ![t].earlyDone = @ \/ (dm[t] # "nil" /\ left[t] > 0),
                 ![t].completed = IF left[t] = 0 THEN @ \cup {cur[t]} ELSE @]
            /\ pc' = [pc EXCEPT ![t] = "select"]
            /\ UNCHANGED left
  /\ UNCHANGED <<engine, nat, alive, dm, rx, err, abrt, tcoVars, tcbVars, call, s3Vars>>

\* Run, case <-r.IdleTimer(): no work is queued or in progress
TcoIdle(t) ==
  /\ engine = "tco" /\ alive[t] /\ pc[t] = "select"
  /\ workCh[t] = <<>>
  /\ pc' = [pc EXCEPT ![t] = "fin"]
  /\ UNCHANGED <<engine, nat, alive, net, dm, rx, err, abrt, left,
                 tcoVars, tcbVars, hist, call, s3Vars>>

\* the xaction is aborted from outside: Run takes case <-r.ChanAbort() at the
\* select, or sees IsAborted after the iteration
TcoAbort(t) ==
  /\ engine = "tco" /\ alive[t] /\ pc[t] \in {"select", "iter"}
  /\ ~abrt[t]
  /\ abrt' = [abrt EXCEPT ![t] = TRUE]
  /\ err' = AddErr(t, "abort")
  /\ pc' = [pc EXCEPT ![t] = IF pc[t] = "select" THEN "fin" ELSE @]
  /\ UNCHANGED <<engine, nat, alive, net, dm, rx, left, tcoVars, tcbVars, hist, call, s3Vars>>

\* the pending map after Run's cleanup: cleared iff r.Err() != nil
FinPending(t) == IF err[t] # "" THEN {} ELSE pending[t]

\* Run, label fin: r.fin(true) closes the transport and deregisters the
\* receive handler; then the cleanup of the pending map
TcoFin(t) ==
  /\ engine = "tco" /\ alive[t] /\ pc[t] = "fin"
  /\ dm' = [dm EXCEPT ![t] = IF @ = "open" THEN "closed" ELSE @]
  /\ rx' = [rx EXCEPT ![t] = FALSE]
  /\ hist' = [hist EXCEPT ![t].closes = IF dm[t] = "open" THEN @ + 1 ELSE @,
                          ![t].unregs = IF rx[t] THEN @ + 1 ELSE @,
                          ![t].peerDead = \E s \in Peers(t) : ~alive[s]]
  /\ pending' = [pending EXCEPT ![t] = FinPending(t)]
  /\ pc' = [pc EXCEPT ![t] = "finished"]
  /\ UNCHANGED <<engine, nat, alive, net, err, abrt, left,
                 wiRefc, wiCnt, workCh, cur, tcbVars, call, s3Vars>>

\* XactTCObjs.recv with err == nil: _recv. An OpcTxnDone decrements the work
\* item's refc under the pending lock and deletes the item at 0 (a txn that
\* is not pending returns the joined error); an object payload is put.
TcoRecv(s, t) ==
  /\ engine = "tco" /\ alive[t] /\ rx[t]
  /\ net[<<s, t>>] # <<>>
  /\ LET m == Head(net[<<s, t>>])
         x == m.txn
         last == x \in pending[t] /\ wiRefc[t][x] - 1 = 0
     IN
       /\ net' = [net EXCEPT ![<<s, t>>] = Tail(@)]
       /\ IF m.op = OpcTxnDone
            THEN /\ wiRefc' = [wiRefc EXCEPT ![t][x] = IF x \in pending[t] THEN @ - 1 ELSE @]
                 /\ pending' = [pending EXCEPT ![t] = IF last THEN @ \ {x} ELSE @]
                 /\ wiCnt' = [wiCnt EXCEPT ![t] = IF last THEN @ - 1 ELSE @]
                 /\ hist' = [hist EXCEPT ![t].doneRx[x] = @ + 1,
                                         ![t].removed[x] = IF last THEN @ + 1 ELSE @]
                 /\ UNCHANGED err
            ELSE /\ \E ok \in BOOLEAN : err' = IF ok THEN err ELSE AddErr(t, "put")
                 /\ UNCHANGED <<pending, wiRefc, wiCnt, hist>>
  /\ UNCHANGED <<engine, nat, alive, dm, rx, abrt, pc, left, workCh, cur, tcbVars, call, s3Vars>>

\* ----------------------------------------------------------- environment
\* the transport finds no receive handler (or no receiver) for a message
Drop(s, t) ==
  /\ net[<<s, t>>] # <<>>
  /\ ~rx[t] \/ ~alive[t]
  /\ LET m == Head(net[<<s, t>>]) IN
       hist' = [hist EXCEPT ![t].lostDone[m.txn] = IF m.op = OpcTxnDone THEN @ + 1 ELSE @,
                            ![t].lostObj = @ \/ m.op = OpcObject]
  /\ net' = [net EXCEPT ![<<s, t>>] = Tail(@)]
  /\ UNCHANGED <<engine, nat, alive, dm, rx, err, abrt, pc, left, tcoVars, tcbVars, call, s3Vars>>

\* a target dies during the job
Crash(t) ==
  /\ engine # "" /\ t \in Targets /\ alive[t]
  /\ pc[t] \notin {"none", "finished"}
  /\ Cardinality({u \in Nodes : ~alive[u]}) < MaxCrash
  /\ alive' = [alive EXCEPT ![t] = FALSE]
  /\ rx' = [rx EXCEPT ![t] = FALSE]
  /\ UNCHANGED <<engine, nat, net, dm, err, abrt, pc, left, tcoVars, tcbVars, hist, call, s3Vars>>

\* ------------------------------------------------------------------- init
InitTC ==
  /\ nat \in 1..MaxTargets
  /\ alive = [t \in Nodes |-> TRUE]
  /\ net = [p \in Pairs |-> <<>>]
  /\ dm = [t \in Nodes |-> "nil"]
  /\ rx = [t \in Nodes |-> FALSE]
  /\ err = [t \in Nodes |-> ""]
  /\ abrt = [t \in Nodes |-> FALSE]
  /\ pc = [t \in Nodes |-> "none"]
  /\ left = [t \in Nodes |-> 0]
  /\ pending = [t \in Nodes |-> {}]
  /\ wiRefc = [t \in Nodes |-> [x \in Txns |-> 0]]
  /\ wiCnt = [t \in Nodes |-> 0]
  /\ workCh = [t \in Nodes |-> <<>>]
  /\ cur = [t \in Nodes |-> 1]
  /\ refc = [t \in Nodes |-> 0]
  /\ since = [t \in Nodes |-> SinceCap]
  /\ tot = [t \in Nodes |-> 0]
  /\ idle = [t \in Nodes |-> 0]
  /\ qres = [t \in Nodes |-> ""]
  /\ hist = [t \in Nodes |-> InitHistT]

InitTCO == engine = "tco" /\ InitTC /\ call = NoCall /\ InitS3Idle

NextTCO ==
  \/ \E t \in Targets : TcoStart(t)
  \/ \E t \in Targets, x \in Txns : Begin(t, x)
  \/ \E t \in Targets, x \in Txns : Do(t, x)
  \/ \E t \in Targets : TcoDispatch(t)
  \/ \E t \in Targets : TcoDo(t)
  \/ \E t \in Targets : TcoIterEnd(t)
  \/ \E t \in Targets : TcoIdle(t)
  \/ \E t \in Targets : TcoAbort(t)
  \/ \E t \in Targets : TcoFin(t)
  \/ \E p \in Pairs : TcoRecv(p[1], p[2])
  \/ \E p \in Pairs : Drop(p[1], p[2])

SpecTCO == InitTCO /\ [][NextTCO]_vars

SpecTCOCrash == InitTCO /\ [][NextTCO \/ \E t \in Nodes : Crash(t)]_vars

\* ------------------------------------------------- the destination bucket
\* the bucket the job copies to (msg.ToBck)
DstBck == MaxBuckets

\* the BMD with the destination bucket in it
WithDst(m, b) == [m EXCEPT ![b] = [present |-> TRUE, access |-> "all", versioning |-> FALSE]]

\* the state when the targets construct the xaction: the destination bucket
\* is in the BMD, created by the begin phase of this job's transaction
\* ("job"), or by someone else, before or at the same time ("other")
InitTCODst ==
  /\ engine = "tco" /\ InitTC /\ call = NoCall
  /\ bmd = WithDst([b \in Buckets |-> NoBck], DstBck)
  /\ cbmd = bmd
  /\ smap = {}
  /\ gone = {}
  /\ \E who \in {"job", "other"} :
       madeBy = [b \in Buckets |-> IF b = DstBck THEN who ELSE ""]
  /\ resp = NoResp

SpecTCODst == InitTCODst /\ [][NextTCO]_vars

\* ================================================================== XactTCB

\* a count that leaves one done-sender out
RefcOneShort(n) == n - 2

\* tcbFactory.Start: nat - 1, the done-senders to ref-count
RefcAtStart(n) == n - 1

\* tcbFactory.Start: refc is stored, then (with peers) newDM creates the data
\* mover and registers the receive handler. The two-phase transaction starts
\* the xaction on every target in its begin phase.
TcbStart(t) ==
  /\ engine = "tcb" /\ alive[t] /\ pc[t] = "none"
  /\ refc' = [refc EXCEPT ![t] = RefcAtStart(nat)]
  /\ dm' = [dm EXCEPT ![t] = IF nat <= 1 THEN "nil" ELSE "new"]
  /\ rx' = [rx EXCEPT ![t] = nat > 1]
  /\ pc' = [pc EXCEPT ![t] = "started"]
  /\ UNCHANGED <<engine, nat, alive, net, err, abrt, left, tcoVars,
                 since, tot, idle, qres, hist, call, s3Vars>>

\* TxnAbort is the pre-run abort: the transaction is aborted instead of
\* committed, so no target of the job has run or will run
TxnAbortEnabled(t) ==
  /\ pc[t] = "started"
  /\ \A u \in Targets : pc[u] \in {"none", "started"} \/ err[u] = "txn-abort"

\* XactTCB.TxnAbort: dm.Close, dm.UnregRecv, AddErr, Finish
TxnAbort(t) ==
  /\ engine = "tcb" /\ alive[t]
  /\ TxnAbortEnabled(t)
  /\ dm' = [dm EXCEPT ![t] = IF @ = "nil" THEN @ ELSE "closed"]
  /\ rx' = [rx EXCEPT ![t] = FALSE]
  /\ err' = AddErr(t, "txn-abort")
  /\ hist' = [hist EXCEPT ![t].closes = IF dm[t] = "nil" THEN @ ELSE @ + 1,
                          ![t].unregs = IF dm[t] = "nil" THEN @ ELSE @ + 1,
                          ![t].nilDm = @ \/ dm[t] = "nil"]
  /\ pc' = [pc EXCEPT ![t] = "finished"]
  /\ UNCHANGED <<engine, nat, alive, net, abrt, left, tcoVars, tcbVars, call, s3Vars>>

\* XactTCB.Run up to BckJog.Run: the data mover, if any, is opened and the
\* joggers start. The commit phase runs the xaction once every target has
\* begun and none was txn-aborted.
TcbRun(t) ==
  /\ engine = "tcb" /\ alive[t] /\ pc[t] = "started"
  /\ \A u \in Targets : pc[u] # "none" /\ err[u] # "txn-abort"
  /\ dm' = [dm EXCEPT ![t] = IF @ = "nil" THEN @ ELSE "open"]
  /\ hist' = [hist EXCEPT ![t].opens = IF dm[t] = "nil" THEN @ ELSE @ + 1]
  /\ \E k \in 0..MaxObjs : left' = [left EXCEPT ![t] = k]
  /\ pc' = [pc EXCEPT ![t] = "jog"]
  /\ UNCHANGED <<engine, nat, alive, net, rx, err, abrt, tcoVars, tcbVars, call, s3Vars>>

\* XactTCB.copyObject, called by the joggers for one object: copied locally,
\* or streamed to the peer that owns it; out-of-space aborts the xaction and
\* any other error is added.
copyObject(t) ==
  /\ engine = "tcb" /\ alive[t] /\ pc[t] = "jog" /\ left[t] > 0
  /\ ~abrt[t]
  /\ \/ /\ left' = [left EXCEPT ![t] = @ - 1]
        /\ UNCHANGED <<net, err, abrt, hist>>
     \/ /\ dm[t] = "open"
        /\ \E to \in Peers(t) : net' = Send(t, to, Msg(OpcObject, 1))
        /\ hist' = [hist EXCEPT ![t].lateObj = @ \/ H(t).doneTx[1] > 0]
        /\ left' = [left EXCEPT ![t] = @ - 1]
        /\ UNCHANGED <<err, abrt>>
     \/ /\ err' = AddErr(t, "copy")
        /\ left' = [left EXCEPT ![t] = @ - 1]
        /\ UNCHANGED <<net, abrt, hist>>
     \/ /\ err' = AddErr(t, "abort")
        /\ abrt' = [abrt EXCEPT ![t] = TRUE]
        /\ UNCHANGED <<net, left, hist>>
  /\ UNCHANGED <<engine, nat, alive, dm, rx, pc, tcoVars, tcbVars, call, s3Vars>>

\* the xaction is aborted from outside while it runs
TcbAbort(t) ==
  /\ engine = "tcb" /\ alive[t] /\ pc[t] \in {"jog", "quiesce"}
  /\ ~abrt[t]
  /\ abrt' = [abrt EXCEPT ![t] = TRUE]
  /\ err' = AddErr(t, "abort")
  /\ UNCHANGED <<engine, nat, alive, net, dm, rx, pc, left, tcoVars, tcbVars, hist, call, s3Vars>>

\* a wait that does not wait for the joggers
WaitSkipped(t) == left[t] >= 0

\* BckJog.Wait returns: the joggers have visited every object, or the
\* xaction was aborted and the joggers were stopped
WaitOver(t) == left[t] = 0 \/ abrt[t]

\* XactTCB.Run from BckJog.Wait to the call of Quiesce: with a data mover the
\* done is broadcast and the quiescence starts; without one Run finishes.
TcbWait(t) ==
  /\ engine = "tcb" /\ alive[t] /\ pc[t] = "jog"
  /\ WaitOver(t)
  /\ IF dm[t] = "nil"
       THEN /\ pc' = [pc EXCEPT ![t] = "finished"]
            /\ hist' = [hist EXCEPT ![t].completed =
                          IF left[t] = 0 /\ ~abrt[t] THEN {1} ELSE @]
            /\ UNCHANGED <<net, since>>
       ELSE /\ net' = Bcast(t, Msg(OpcTxnDone, 1))
            /\ hist' = [hist EXCEPT ![t].doneTx[1] = @ + 1,
                                    ![t].earlyDone = @ \/ (left[t] > 0 /\ ~abrt[t]),
                                    ![t].completed =
                                       IF left[t] = 0 /\ ~abrt[t] THEN {1} ELSE @]
            /\ \E d \in since[t]..SinceCap : since' = [since EXCEPT ![t] = d]
            /\ pc' = [pc EXCEPT ![t] = "quiesce"]
  /\ UNCHANGED <<engine, nat, alive, dm, rx, err, abrt, left, tcoVars,
                 refc, tot, idle, qres, call, s3Vars>>

\* a callback that does not look at refc
qcbNoRefc(errCnt, r, sinceRx, total) ==
  IF errCnt > 0 THEN "QuiTimeout"
  ELSE IF sinceRx > CplaneOperation THEN "QuiDone" ELSE "QuiInactiveCB"

\* XactTCB.qcb(tot), reading ErrCnt, refc and the time since the last receive
qcb(errCnt, r, sinceRx, total) ==
  IF errCnt > 0 THEN "QuiTimeout"
  ELSE IF r > 0
    THEN IF sinceRx > MaxKeepalive /\ total > SendFileTimeout
           THEN "QuiTimeout" ELSE "QuiActive"
    ELSE IF sinceRx > CplaneOperation THEN "QuiDone" ELSE "QuiInactiveCB"

ErrCnt(t) == IF err[t] = "" THEN 0 ELSE 1

\* one round of r.Quiesce(cmn.Rom.CplaneOperation(), r.qcb): aborted returns
\* at once; otherwise sleep, add the sleep to the total and ask the callback
Quiesce(t) ==
  /\ engine = "tcb" /\ alive[t] /\ pc[t] = "quiesce"
  /\ IF abrt[t]
       THEN /\ qres' = [qres EXCEPT ![t] = "QuiAborted"]
            /\ pc' = [pc EXCEPT ![t] = "close"]
            /\ UNCHANGED <<since, tot, idle>>
       ELSE LET s1 == Min(since[t] + 1, SinceCap)
                t1 == Min(tot[t] + 1, TotCap)
                res == qcb(ErrCnt(t), refc[t], s1, t1)
                i1 == IF res = "QuiInactiveCB" THEN idle[t] + 1
                      ELSE IF res = "QuiActive" THEN 0 ELSE idle[t]
                ret == IF res \in {"QuiDone", "QuiTimeout"} THEN res
                       ELSE IF i1 >= CplaneOperation THEN "Quiescent" ELSE ""
            IN /\ since' = [since EXCEPT ![t] = s1]
               /\ tot' = [tot EXCEPT ![t] = t1]
               /\ idle' = [idle EXCEPT ![t] = i1]
               /\ qres' = [qres EXCEPT ![t] = ret]
               /\ pc' = [pc EXCEPT ![t] = IF ret = "" THEN "quiesce" ELSE "close"]
  /\ UNCHANGED <<engine, nat, alive, net, dm, rx, err, abrt, left, tcoVars,
                 refc, hist, call, s3Vars>>

\* a Run that leaves the data mover as it is
RunNoClose(t) == dm[t]

\* the data mover after Run's close
RunClose(t) == "closed"

\* XactTCB.Run after Quiesce: a timeout is added as an error, the data mover
\* is closed and the receive handler deregistered, the xaction finishes
TcbClose(t) ==
  /\ engine = "tcb" /\ alive[t] /\ pc[t] = "close"
  /\ err' = IF qres[t] = "QuiTimeout" THEN AddErr(t, "quiesce-timeout") ELSE err
  /\ dm' = [dm EXCEPT ![t] = RunClose(t)]
  /\ rx' = [rx EXCEPT ![t] = FALSE]
  /\ hist' = [hist EXCEPT ![t].closes = IF RunClose(t) = "closed" THEN @ + 1 ELSE @,
                          ![t].unregs = @ + 1,
                          ![t].peerDead = \E s \in Peers(t) : ~alive[s]]
  /\ pc' = [pc EXCEPT ![t] = "finished"]
  /\ UNCHANGED <<engine, nat, alive, net, abrt, left, tcoVars, tcbVars, call, s3Vars>>

\* XactTCB.recv with err == nil: an OpcTxnDone decrements refc; an object
\* payload is put (_recv), and a successful put stores rxlast
TcbRecv(s, t) ==
  /\ engine = "tcb" /\ alive[t] /\ rx[t]
  /\ net[<<s, t>>] # <<>>
  /\ LET m == Head(net[<<s, t>>]) IN
       /\ net' = [net EXCEPT ![<<s, t>>] = Tail(@)]
       /\ IF m.op = OpcTxnDone
            THEN /\ refc' = [refc EXCEPT ![t] = @ - 1]
                 /\ hist' = [hist EXCEPT ![t].doneRx[m.txn] = @ + 1]
                 /\ UNCHANGED <<err, since>>
            ELSE /\ \E ok \in BOOLEAN :
                      /\ err' = IF ok THEN err ELSE AddErr(t, "put")
                      /\ since' = [since EXCEPT ![t] = IF ok THEN 0 ELSE @]
                 /\ hist' = [hist EXCEPT ![t].objRx = @ + 1]
                 /\ UNCHANGED refc
  /\ UNCHANGED <<engine, nat, alive, dm, rx, abrt, pc, left, tcoVars,
                 tot, idle, qres, call, s3Vars>>

InitTCB == engine = "tcb" /\ InitTC /\ call = NoCall /\ InitS3Idle

NextTCB ==
  \/ \E t \in Targets : TcbStart(t)
  \/ \E t \in Targets : TxnAbort(t)
  \/ \E t \in Targets : TcbRun(t)
  \/ \E t \in Targets : copyObject(t)
  \/ \E t \in Targets : TcbAbort(t)
  \/ \E t \in Targets : TcbWait(t)
  \/ \E t \in Targets : Quiesce(t)
  \/ \E t \in Targets : TcbClose(t)
  \/ \E p \in Pairs : TcbRecv(p[1], p[2])
  \/ \E p \in Pairs : Drop(p[1], p[2])

SpecTCB == InitTCB /\ [][NextTCB]_vars

\* both engines: the job is of one kind or the other
NextTC == NextTCO \/ NextTCB

SpecTC == (InitTCO \/ InitTCB) /\ [][NextTC]_vars

SpecTCCrash == (InitTCO \/ InitTCB) /\ [][NextTC \/ \E t \in Nodes : Crash(t)]_vars

\* ============================================================ function calls
\* One call of a function of the program on inputs drawn from bounded sets:
\* call.in holds the inputs, call.out the result once the call was made.
InitIdle ==
  /\ engine = "" /\ nat = 1
  /\ alive = [t \in Nodes |-> TRUE]
  /\ net = [p \in Pairs |-> <<>>]
  /\ dm = [t \in Nodes |-> "nil"]
  /\ rx = [t \in Nodes |-> FALSE]
  /\ err = [t \in Nodes |-> ""]
  /\ abrt = [t \in Nodes |-> FALSE]
  /\ pc = [t \in Nodes |-> "none"]
  /\ left = [t \in Nodes |-> 0]
  /\ pending = [t \in Nodes |-> {}]
  /\ wiRefc = [t \in Nodes |-> [x \in Txns |-> 0]]
  /\ wiCnt = [t \in Nodes |-> 0]
  /\ workCh = [t \in Nodes |-> <<>>]
  /\ cur = [t \in Nodes |-> 1]
  /\ refc = [t \in Nodes |-> 0]
  /\ since = [t \in Nodes |-> SinceCap]
  /\ tot = [t \in Nodes |-> 0]
  /\ idle = [t \in Nodes |-> 0]
  /\ qres = [t \in Nodes |-> ""]
  /\ hist = [t \in Nodes |-> InitHistT]

\* ------------------------------------- XactTCB with cluster-map snapshots
\* every target reads its own copy of the cluster map in Start, and its data
\* mover broadcasts to the targets of that copy; the target itself is active
\* in its copy (Start returns an error otherwise); the copies are versions of
\* one map that targets have joined, or have left, one after the other
SnapNodes == 1..MaxSnapTargets
Snapshots ==
  {v \in [SnapNodes -> SUBSET SnapNodes] :
     /\ \A t \in SnapNodes : t \in v[t]
     /\ \A s, t \in SnapNodes : v[s] \subseteq v[t] \/ v[t] \subseteq v[s]}

\* smap.CountActiveTs()
CountActiveTs(m) == Cardinality(m)

\* view: the snapshots; at: where each target is (none, started, quiesce,
\* finished); refc: r.refc; rx: the receive handler is registered; dones: the
\* OpcTxnDone on their way to the target; doneRx: those recv has counted
InitSnap ==
  /\ InitIdle
  /\ InitS3Idle
  /\ \E v \in Snapshots :
       call = [fn |-> "snap", view |-> v,
               at |-> [t \in SnapNodes |-> "none"],
               refc |-> [t \in SnapNodes |-> 0],
               rx |-> [t \in SnapNodes |-> FALSE],
               dones |-> [t \in SnapNodes |-> 0],
               doneRx |-> [t \in SnapNodes |-> 0]]

\* tcbFactory.Start: refc is stored, and with peers the receive handler is
\* registered
SnapStart(t) ==
  /\ call.fn = "snap" /\ call.at[t] = "none"
  /\ LET n == CountActiveTs(call.view[t]) IN
       call' = [call EXCEPT !.at[t] = "started",
                            !.refc[t] = RefcAtStart(n),
                            !.rx[t] = n > 1]
  /\ UNCHANGED <<tcVars, s3Vars>>

\* XactTCB.Run to the call of Quiesce, in the commit phase (every target has
\* begun): with a data mover the done is broadcast to the targets of the
\* snapshot; without one Run finishes
SnapRun(t) ==
  /\ call.fn = "snap" /\ call.at[t] = "started"
  /\ \A u \in SnapNodes : call.at[u] # "none"
  /\ IF CountActiveTs(call.view[t]) <= 1
       THEN call' = [call EXCEPT !.at[t] = "finished"]
       ELSE call' = [call EXCEPT !.at[t] = "quiesce",
                                 !.dones = [u \in SnapNodes |->
                                              IF u \in call.view[t] \ {t} THEN @[u] + 1 ELSE @[u]]]
  /\ UNCHANGED <<tcVars, s3Vars>>

\* XactTCB.recv of an OpcTxnDone: refc.Dec()
SnapRecv(t) ==
  /\ call.fn = "snap" /\ call.rx[t] /\ call.dones[t] > 0
  /\ call' = [call EXCEPT !.dones[t] = @ - 1,
                          !.refc[t] = @ - 1,
                          !.doneRx[t] = @ + 1]
  /\ UNCHANGED <<tcVars, s3Vars>>

\* XactTCB.Run after Quiesce (done with refc <= 0, or timeout): the
\* receive handler is deregistered
SnapClose(t) ==
  /\ call.fn = "snap" /\ call.at[t] = "quiesce"
  /\ call' = [call EXCEPT !.at[t] = "finished", !.rx[t] = FALSE]
  /\ UNCHANGED <<tcVars, s3Vars>>

\* the transport finds no receive handler for a done
SnapDrop(t) ==
  /\ call.fn = "snap" /\ ~call.rx[t] /\ call.dones[t] > 0
  /\ call.at[t] # "none"
  /\ call' = [call EXCEPT !.dones[t] = @ - 1]
  /\ UNCHANGED <<tcVars, s3Vars>>

NextSnap ==
  \/ \E t \in SnapNodes : SnapStart(t)
  \/ \E t \in SnapNodes : SnapRun(t)
  \/ \E t \in SnapNodes : SnapRecv(t)
  \/ \E t \in SnapNodes : SnapClose(t)
  \/ \E t \in SnapNodes : SnapDrop(t)

SpecSnap == InitSnap /\ [][NextSnap]_vars

\* ------------------------------------------------ tcbFactory: renewal
\* the transactions that ask for the bucket xaction, by UUID; begin and
\* commit are the phases of the two-phase transaction
RenewUuids == 1..MaxRenewals
Phases == {"begin", "commit"}
NoEntry == [uuid |-> 0]

\* tcbFactory.New: the phase and the arguments of the request (args.Phase is
\* the phase of the request)
New(u, phase) == [uuid |-> u, phase |-> phase, args |-> [Phase |-> phase]]

\* a renewal that takes the running xaction whatever the UUID
WhenPrevAlwaysUse(p, prev, dbg) ==
  [wpr |-> "WprUse", err |-> "", prev |-> [prev EXCEPT !.args.Phase = "commit"], panic |-> FALSE]

\* tcbFactory.WhenPrevIsRunning; dbg: the build has the debug asserts
WhenPrevIsRunning(p, prev, dbg) ==
  IF p.uuid # prev.uuid
    THEN [wpr |-> "", err |-> "ErrXactUsePrev", prev |-> prev, panic |-> FALSE]
  ELSE IF dbg /\ ~(prev.phase = "begin" /\ p.phase = "commit")
    THEN [wpr |-> "", err |-> "", prev |-> prev, panic |-> TRUE]
  ELSE [wpr |-> "WprUse", err |-> "", prev |-> [prev EXCEPT !.args.Phase = "commit"],
        panic |-> FALSE]

\* entry: the running xaction's factory (NoEntry: none is running); st: how
\* far each transaction is; dbg: the build; last: the last renewal that found
\* an xaction running
InitRenew ==
  /\ InitIdle
  /\ InitS3Idle
  /\ \E dbg \in BOOLEAN :
       call = [fn |-> "renew", entry |-> NoEntry, dbg |-> dbg,
               st |-> [u \in RenewUuids |-> "new"], last |-> [op |-> ""]]

\* the renewal of a request: a transaction begins once, and commits once
\* after its begin was accepted. Without a running xaction the new one
\* starts; with one, WhenPrevIsRunning decides
Renew(u, phase) ==
  /\ call.fn = "renew"
  /\ call.st[u] = (IF phase = "begin" THEN "new" ELSE "begun")
  /\ IF call.entry = NoEntry
       THEN call' = [call EXCEPT !.entry = New(u, phase), !.st[u] = "begun"]
       ELSE LET r == WhenPrevIsRunning(New(u, phase), call.entry, call.dbg) IN
              call' = [call EXCEPT
                         !.entry = r.prev,
                         !.st[u] = IF r.wpr = "WprUse" THEN "committed" ELSE "rejected",
                         !.last = [op |-> "prevRunning", uuid |-> u, phase |-> phase,
                                   wpr |-> r.wpr, err |-> r.err, panic |-> r.panic,
                                   before |-> call.entry, after |-> r.prev]]
  /\ UNCHANGED <<tcVars, s3Vars>>

\* the running xaction is over: aborted before its commit (TxnAbort), or
\* finished after it (Run)
RenewOver ==
  /\ call.fn = "renew" /\ call.entry # NoEntry
  /\ call' = [call EXCEPT !.entry = NoEntry,
                          !.st[call.entry.uuid] =
                             IF call.entry.args.Phase = "commit" THEN "finished" ELSE "aborted"]
  /\ UNCHANGED <<tcVars, s3Vars>>

NextRenew ==
  \/ \E u \in RenewUuids, phase \in Phases : Renew(u, phase)
  \/ RenewOver

SpecRenew == InitRenew /\ [][NextRenew]_vars

\* ------------------------------------------------------------ XactTCB.qcb
\* inputs: ErrCnt, refc (never negative: at most nat - 1 dones are owed),
\* the time since the last receive and Quiesce's total
QcbInputs ==
  [errCnt : 0..1, refc : 0..MaxTargets, since : 0..SinceCap, tot : 1..TotCap]

InitQcb ==
  /\ InitIdle
  /\ InitS3Idle
  /\ \E i \in QcbInputs : call = [fn |-> "qcb", in |-> i, out |-> <<>>]

CallQcb ==
  /\ call.fn = "qcb" /\ call.out = <<>>
  /\ call' = [call EXCEPT !.out =
                <<qcb(call.in.errCnt, call.in.refc, call.in.since, call.in.tot)>>]
  /\ UNCHANGED <<tcVars, s3Vars>>

SpecQcb == InitQcb /\ [][CallQcb]_vars

\* ------------------------------------------------------- receive handlers
\* inputs of a receive callback: the transport's error, the header's opcode,
\* whether the txn of a done is in r.pending.m (TCO), whether lom.InitBck and
\* PutObject succeed, and whether the header carries an access time
RecvInputs ==
  [terr : {"nil", "EOF", "other"}, opcode : {OpcObject, OpcTxnDone},
   isPending : BOOLEAN, initBck : BOOLEAN, put : BOOLEAN, atime : 0..1]

\* the put of an object payload, XactTCObjs._put and XactTCB._recv: what is
\* returned, whether the error is added, whether the access time is set
PutPayload(i) ==
  IF ~i.initBck THEN [ret |-> "err", atimeSet |-> FALSE, stored |-> FALSE]
  ELSE [ret |-> IF i.put THEN "nil" ELSE "err", atimeSet |-> TRUE, stored |-> i.put]

\* XactTCObjs.recv: a non-EOF error skips to the exit; otherwise _recv, then
\* transport.DrainAndFreeReader
TcoRecvFn(i) ==
  IF i.terr = "other"
    THEN [ret |-> "err", drained |-> FALSE, dec |-> FALSE, stored |-> FALSE,
          addErr |-> FALSE, rxlast |-> FALSE]
  ELSE IF i.opcode = OpcTxnDone
    THEN [ret |-> IF i.isPending THEN "nil" ELSE "joined", drained |-> TRUE,
          dec |-> i.isPending, stored |-> FALSE, addErr |-> FALSE, rxlast |-> FALSE]
  ELSE [ret |-> PutPayload(i).ret, drained |-> TRUE, dec |-> FALSE,
        stored |-> PutPayload(i).stored,
        addErr |-> i.initBck /\ ~i.put, rxlast |-> FALSE]

\* XactTCB.recv: a non-EOF error returns; an OpcTxnDone decrements refc and
\* returns; an object payload is put and the reader drained and freed
TcbRecvFn(i) ==
  IF i.terr = "other"
    THEN [ret |-> "err", drained |-> FALSE, dec |-> FALSE, stored |-> FALSE,
          addErr |-> FALSE, rxlast |-> FALSE]
  ELSE IF i.opcode = OpcTxnDone
    THEN [ret |-> "nil", drained |-> FALSE, dec |-> TRUE, stored |-> FALSE,
          addErr |-> FALSE, rxlast |-> FALSE]
  ELSE [ret |-> PutPayload(i).ret, drained |-> TRUE, dec |-> FALSE,
        stored |-> PutPayload(i).stored,
        addErr |-> PutPayload(i).ret = "err", rxlast |-> PutPayload(i).stored]

InitRecv ==
  /\ InitIdle
  /\ InitS3Idle
  /\ \E e \in {"tco", "tcb"}, i \in RecvInputs :
       call = [fn |-> "recv", in |-> [i EXCEPT !.isPending = @ \/ e = "tcb"],
               eng |-> e, out |-> <<>>]

CallRecv ==
  /\ call.fn = "recv" /\ call.out = <<>>
  /\ call' = [call EXCEPT !.out =
                <<IF call.eng = "tco" THEN TcoRecvFn(call.in) ELSE TcbRecvFn(call.in)>>]
  /\ UNCHANGED <<tcVars, s3Vars>>

SpecRecv == InitRecv /\ [][CallRecv]_vars

\* ------------------------------------------------------------- tcowi.do
\* inputs of one tcowi.do: the xaction kind, whether BckFrom equals BckTo,
\* msg.Prepend, what CopyObject returns, the iterator's mode (lrit.lrp) and
\* msg.ContinueOnError
DoInputs ==
  [kind : {"copy", "etl"}, sameBck : BOOLEAN, prepend : {"", "p/"},
   cerr : {"nil", "notfound", "other"}, lrp : {"list", "range", "prefix"},
   contOnErr : BOOLEAN]

\* tcoFactory.Start: r.syncRemote is set only when the kind is not ETL
TcoStartSyncRemote(i) == i.kind # "etl" /\ i.sameBck

\* a copy that takes the xaction's flag as it is
TcoSyncRemoteAnyName(i) == TcoStartSyncRemote(i)

\* tcowi.do: the syncRemote it passes to CopyObject
TcoSyncRemote(i) == TcoStartSyncRemote(i) /\ i.prepend = ""

\* tcbFactory.Start: p.xctn.syncRemote, which copyObject passes to CopyObject
TcbSyncRemote(i) == i.kind # "etl" /\ i.prepend = "" /\ i.sameBck

\* tcowi.do: CopyObject, then wi.r.addErr(err, ContinueOnError) unless the
\* error is object-not-found in list mode
tcowiDo(i) ==
  [syncRemote |-> TcoSyncRemote(i),
   addErr |-> i.cerr # "nil" /\ (i.cerr # "notfound" \/ i.lrp # "list"),
   contArg |-> i.contOnErr]

InitDo ==
  /\ InitIdle
  /\ InitS3Idle
  /\ \E i \in DoInputs : call = [fn |-> "do", in |-> i, out |-> <<>>]

CallDo ==
  /\ call.fn = "do" /\ call.out = <<>>
  /\ call' = [call EXCEPT !.out = <<tcowiDo(call.in), TcbSyncRemote(call.in)>>]
  /\ UNCHANGED <<tcVars, s3Vars>>

SpecDo == InitDo /\ [][CallDo]_vars

\* ------------------------------------------------ XactTCObjs.Do, work channel
\* goroutines that call Do once each, concurrently with the dispatch loop of Run
Callers == 1..MaxCallers

\* r.workCh <- msg can proceed: the channel holds less than its capacity
ChanHasRoom(n) == n < maxNumInParallel

\* a throttle that waits for the channel to be full
YieldsWhenFull(l, c) == l = c

\* Do: l > c/2, runtime.Gosched()
DoYields(l, c) == l > c \div 2

InitWorkCh ==
  /\ InitIdle
  /\ InitS3Idle
  /\ call = [fn |-> "Do", ch |-> 0, busy |-> FALSE, chanFull |-> 0,
             at |-> [c \in Callers |-> "idle"],
             seen |-> [c \in Callers |-> 0],
             yielded |-> [c \in Callers |-> FALSE]]

\* Do: r.IncPending(); r.workCh <- msg
DoSend(c) ==
  /\ call.fn = "Do" /\ call.at[c] = "idle"
  /\ ChanHasRoom(call.ch)
  /\ call' = [call EXCEPT !.ch = @ + 1, !.at[c] = "sent"]
  /\ UNCHANGED <<tcVars, s3Vars>>

\* Do: l, c := len(r.workCh), cap(r.workCh), the yield and the chanFull count
DoLen(c) ==
  /\ call.fn = "Do" /\ call.at[c] = "sent"
  /\ LET l == call.ch IN
       call' = [call EXCEPT !.at[c] = "done", !.seen[c] = l,
                            !.yielded[c] = DoYields(l, maxNumInParallel),
                            !.chanFull = IF DoYields(l, maxNumInParallel) /\ l = maxNumInParallel
                                           THEN @ + 1 ELSE @]
  /\ UNCHANGED <<tcVars, s3Vars>>

\* Run: case msg := <-r.workCh, the single receiver; it is busy with the
\* message until the iteration is over
ChRecv ==
  /\ call.fn = "Do" /\ ~call.busy /\ call.ch > 0
  /\ call' = [call EXCEPT !.ch = @ - 1, !.busy = TRUE]
  /\ UNCHANGED <<tcVars, s3Vars>>

\* Run: the iteration of the message is over, back to the select
ChIterOver ==
  /\ call.fn = "Do" /\ call.busy
  /\ call' = [call EXCEPT !.busy = FALSE]
  /\ UNCHANGED <<tcVars, s3Vars>>

NextWorkCh ==
  \/ \E c \in Callers : DoSend(c)
  \/ \E c \in Callers : DoLen(c)
  \/ ChRecv
  \/ ChIterOver

SpecWorkCh == InitWorkCh /\ [][NextWorkCh]_vars

\* ============================================================== S3 gateway
\* p.owner.bmd.get(): the primary reads the BMD it owns, any other proxy its
\* cached copy
LocalBmd(p) == IF p = Primary THEN bmd ELSE cbmd

\* meta.InitByNameOnly(bucket, bmd): the error code, 0 when the bucket is in
\* the given BMD
InitByNameOnly(b, m) == IF m[b].present THEN 0 ELSE 404

\* bck.Allow(ace): the bucket's access attributes permit the operation
Allow(props, ace) ==
  \/ props.access = "all"
  \/ props.access = "ro" /\ ace \in {"GET", "HEAD"}

\* p.forwardCP: a proxy that is not the primary hands the request to the
\* primary, which serves it, and relays the response
forwardCP(p) == p # Primary

BckResp(op, p, b, fwd, served, status) ==
  [op |-> op, by |-> p, bck |-> b, fwd |-> fwd, served |-> served,
   status |-> status, had |-> bmd[b].present, wasGone |-> b \in gone]

\* p.createBucket at the primary: a bucket that is in the BMD is a conflict
createBucket(b) == IF bmd[b].present THEN 409 ELSE 0

\* PUT /s3/<bucket-name>: forwardCP, then (at the primary) createBucket; its
\* error is written as the reply
putBckS3(p, b) ==
  /\ LET status == createBucket(b) IN
       /\ resp' = BckResp("putBck", p, b, forwardCP(p), Primary,
                          IF status = 0 THEN 200 ELSE status)
       /\ IF status = 0
            THEN /\ bmd' = [bmd EXCEPT ![b] =
                       [present |-> TRUE, access |-> "all", versioning |-> FALSE]]
                 /\ gone' = gone \ {b}
                 /\ madeBy' = [madeBy EXCEPT ![b] = "user"]
            ELSE UNCHANGED <<bmd, gone, madeBy>>
  /\ UNCHANGED <<cbmd, smap, tcVars, call>>

\* the checks delBckS3 makes before it forwards, on the BMD m of the proxy
\* that runs it: the error code, 0 when they pass
DelBckChecks(b, m) ==
  IF InitByNameOnly(b, m) # 0 THEN InitByNameOnly(b, m)
  ELSE IF ~Allow(m[b], "DESTROY") THEN 403 ELSE 0

\* DELETE /s3/<bucket-name>: InitByNameOnly and Allow on the proxy's own BMD,
\* then forwardCP (the primary runs the handler again), then destroyBucket
delBckS3(p, b) ==
  /\ LET own == DelBckChecks(b, LocalBmd(p))
         prim == DelBckChecks(b, bmd)
     IN IF own # 0
          THEN /\ resp' = BckResp("delBck", p, b, FALSE, p, own)
               /\ UNCHANGED <<bmd, gone>>
          ELSE IF prim # 0
            THEN /\ resp' = BckResp("delBck", p, b, forwardCP(p), Primary, prim)
                 /\ UNCHANGED <<bmd, gone>>
            ELSE /\ resp' = BckResp("delBck", p, b, forwardCP(p), Primary, 200)
                 /\ bmd' = [bmd EXCEPT ![b] = NoBck]
                 /\ gone' = gone \cup {b}
  /\ UNCHANGED <<cbmd, smap, madeBy, tcVars, call>>

\* PUT /s3/<bucket-name>?versioning: forwardCP, then (at the primary)
\* InitByNameOnly and setBprops
putBckVersioningS3(p, b, enabled) ==
  /\ LET status == InitByNameOnly(b, bmd) IN
       /\ resp' = BckResp("putVer", p, b, forwardCP(p), Primary,
                          IF status = 0 THEN 200 ELSE status)
       /\ bmd' = IF status = 0 THEN [bmd EXCEPT ![b].versioning = enabled] ELSE bmd
  /\ UNCHANGED <<cbmd, smap, gone, madeBy, tcVars, call>>

\* metasync: the non-primary proxy receives the primary's BMD
Metasync ==
  /\ cbmd # bmd
  /\ cbmd' = bmd
  /\ UNCHANGED <<bmd, smap, gone, madeBy, resp, tcVars, call>>

\* set-bprops through the native API: the bucket's access attributes change
SetAccess(b, acc) ==
  /\ bmd[b].present /\ bmd[b].access # acc
  /\ bmd' = [bmd EXCEPT ![b].access = acc]
  /\ UNCHANGED <<cbmd, smap, gone, madeBy, resp, tcVars, call>>

InitS3 ==
  /\ InitIdle /\ call = NoCall
  /\ bmd = [b \in Buckets |-> NoBck]
  /\ cbmd = bmd
  /\ smap = Nodes
  /\ gone = {}
  /\ madeBy = [b \in Buckets |-> ""]
  /\ resp = NoResp

NextS3Bck ==
  \/ \E p \in Proxies, b \in Buckets : putBckS3(p, b)
  \/ \E p \in Proxies, b \in Buckets : delBckS3(p, b)
  \/ \E p \in Proxies, b \in Buckets, e \in BOOLEAN : putBckVersioningS3(p, b, e)
  \/ Metasync
  \/ \E b \in Buckets, acc \in {"all", "ro"} : SetAccess(b, acc)

SpecS3Bck == InitS3 /\ [][NextS3Bck]_vars

\* ------------------------------------------------------- object requests
\* object names of a request: 0 is a name cmn.ValidateObjName rejects
ObjNames == 0..MaxObjNames
ValidateObjName(o) == o # 0

\* the copy-source header: absent, without a '/', or 'bucket/object'
NoSrc == [kind |-> "none"]
BadSrc == [kind |-> "bad"]
SrcHdrs ==
  {NoSrc, BadSrc} \cup {[kind |-> "ok", bck |-> b, obj |-> o] : b \in Buckets, o \in ObjNames}

\* bck.MakeUname(objName): one name per (bucket, object)
MakeUname(b, o) == b * (MaxObjNames + 1) + o

\* highest random weight: the target of the cluster map with the largest
\* weight for the name
Weight(u, t) == (u * 5 + t * 3) % 7
Hrw(u, m) == CHOOSE t \in m : \A x \in m : Weight(u, t) >= Weight(u, x)

ObjErr(op, p, b, o, src, status) ==
  [op |-> op, by |-> p, bck |-> b, obj |-> o, src |-> src, lm |-> FALSE,
   kind |-> "error", status |-> status, target |-> 0]

ObjSent(op, p, b, o, src, kind, si) ==
  [op |-> op, by |-> p, bck |-> b, obj |-> o, src |-> src, lm |-> FALSE,
   kind |-> kind, status |-> IF kind = "redirect" THEN 307 ELSE 200, target |-> si]

\* the common path of getObjS3, directPutObjS3 and delObjS3: bucket, access,
\* object name, HRW, redirect
RedirectObj(op, ace, p, b, o) ==
  LET m == LocalBmd(p) IN
    IF InitByNameOnly(b, m) # 0 THEN ObjErr(op, p, b, o, NoSrc, InitByNameOnly(b, m))
    ELSE IF ~Allow(m[b], ace) THEN ObjErr(op, p, b, o, NoSrc, 403)
    ELSE IF ~ValidateObjName(o) THEN ObjErr(op, p, b, o, NoSrc, 400)
    ELSE IF smap = {} THEN ObjErr(op, p, b, o, NoSrc, 400)
    ELSE ObjSent(op, p, b, o, NoSrc, "redirect", Hrw(MakeUname(b, o), smap))

\* GET /s3/<bucket-name>/<object-name>; with the uploads query it lists the
\* multipart uploads instead
getObjS3(p, b, o, listMultipart) ==
  LET m == LocalBmd(p) IN
    IF listMultipart /\ InitByNameOnly(b, m) = 0 /\ Allow(m[b], "GET")
      THEN [ObjSent("get", p, b, o, NoSrc, "list", 0) EXCEPT !.lm = TRUE]
      ELSE [RedirectObj("get", "GET", p, b, o) EXCEPT !.lm = listMultipart]

\* PUT /s3/<bucket-name>/<object-name> with empty copy-source header
directPutObjS3(p, b, o) == RedirectObj("put", "PUT", p, b, o)

\* DELETE /s3/<bucket-name>/<object-name>
delObjS3(p, b, o) == RedirectObj("del", "DELETE", p, b, o)

\* a HEAD that is answered like a GET
headObjRedirected(p, b, o) == [RedirectObj("head", "HEAD", p, b, o) EXCEPT !.op = "head"]

\* HEAD /s3/<bucket-name>/<object-name>: object name, bucket, access, HRW,
\* then p.reverseNodeRequest
headObjS3(p, b, o) ==
  LET m == LocalBmd(p) IN
    IF ~ValidateObjName(o) THEN ObjErr("head", p, b, o, NoSrc, 400)
    ELSE IF InitByNameOnly(b, m) # 0 THEN ObjErr("head", p, b, o, NoSrc, InitByNameOnly(b, m))
    ELSE IF ~Allow(m[b], "HEAD") THEN ObjErr("head", p, b, o, NoSrc, 403)
    ELSE IF smap = {} THEN ObjErr("head", p, b, o, NoSrc, 500)
    ELSE ObjSent("head", p, b, o, NoSrc, "proxied", Hrw(MakeUname(b, o), smap))

\* a copy that is sent to the owner of the destination object
copyToDstOwner(p, b, o, src) ==
  [RedirectObj("put", "PUT", p, b, o) EXCEPT !.src = src]

\* PUT with the copy-source header: source bucket and GET access, destination
\* bucket and PUT access, HRW of the source object, redirect
copyObjS3(p, b, o, src) ==
  LET m == LocalBmd(p) IN
    IF src.kind = "bad" THEN ObjErr("put", p, b, o, src, 400)
    ELSE IF InitByNameOnly(src.bck, m) # 0
      THEN ObjErr("put", p, b, o, src, InitByNameOnly(src.bck, m))
    ELSE IF ~Allow(m[src.bck], "GET") THEN ObjErr("put", p, b, o, src, 403)
    ELSE IF InitByNameOnly(b, m) # 0 THEN ObjErr("put", p, b, o, src, InitByNameOnly(b, m))
    ELSE IF ~Allow(m[b], "PUT") THEN ObjErr("put", p, b, o, src, 403)
    ELSE IF smap = {} THEN ObjErr("put", p, b, o, src, 400)
    ELSE ObjSent("put", p, b, o, src, "redirect", Hrw(MakeUname(src.bck, src.obj), smap))

\* PUT /s3/<bucket-name>/<object-name>
putObjS3(p, b, o, src) ==
  IF src = NoSrc THEN directPutObjS3(p, b, o) ELSE copyObjS3(p, b, o, src)

\* proxy.s3Handler for a request with a bucket and an object name; the
\* handlers change nothing at the gateway, so one request is followed
S3ObjReq(p, b, o) ==
  /\ resp = NoResp
  /\ \/ \E lm \in BOOLEAN : resp' = getObjS3(p, b, o, lm)
     \/ \E src \in SrcHdrs : resp' = putObjS3(p, b, o, src)
     \/ resp' = delObjS3(p, b, o)
     \/ resp' = headObjS3(p, b, o)
  /\ UNCHANGED <<bmd, cbmd, smap, gone, madeBy, tcVars, call>>

\* the buckets a BMD may hold
BckStates ==
  {NoBck} \cup {[present |-> TRUE, access |-> a, versioning |-> FALSE] : a \in {"all", "ro"}}

InitS3Obj ==
  /\ InitIdle /\ call = NoCall
  /\ bmd \in [Buckets -> BckStates]
  /\ cbmd \in {bmd, [b \in Buckets |-> NoBck]}   \* metasync'ed, or not yet received
  /\ smap \in SUBSET Nodes
  /\ gone = {}
  /\ madeBy = [b \in Buckets |-> ""]
  /\ resp = NoResp

NextS3Obj == \E p \in Proxies, b \in Buckets, o \in ObjNames : S3ObjReq(p, b, o)

SpecS3Obj == InitS3Obj /\ [][NextS3Obj]_vars

\* ------------------------------------------------- list multipart uploads
\* a target's answer to the broadcast GET: not ok for a failed call or a body
\* that does not parse, otherwise the Uploads of its ListMptUploadsResult
UploadIds == 1..MaxUploads
UploadLists == UNION {[1..n -> UploadIds] : n \in 0..MaxUploads}
MptAnswers ==
  {[ok |-> TRUE, uploads |-> l] : l \in UploadLists} \cup {[ok |-> FALSE, uploads |-> <<>>]}

\* the orders in which a range over smap.Tmap may visit the targets
VisitOrders(m) == {f \in [1..Cardinality(m) -> m] : \A i, j \in DOMAIN f : f[i] = f[j] => i = j}

\* an aggregation that keeps the first non-empty answer only
RECURSIVE AggregateFirst(_, _, _)
AggregateFirst(order, rs, all) ==
  IF order = <<>> THEN all
  ELSE LET r == rs[Head(order)] IN
         AggregateFirst(Tail(order), rs, IF r.ok /\ r.uploads # <<>> /\ all = <<>> THEN r.uploads ELSE all)

\* listMultipart, the loop over smap.Tmap: the Uploads of every answer that
\* came and parsed are appended to all.Uploads
RECURSIVE Aggregate(_, _, _)
Aggregate(order, rs, all) ==
  IF order = <<>> THEN all
  ELSE LET r == rs[Head(order)] IN
         Aggregate(Tail(order), rs, IF r.ok /\ Len(r.uploads) > 0 THEN all \o r.uploads ELSE all)

\* proxy.listMultipart: one active target, redirect; otherwise broadcast and
\* aggregate
listMultipart(b, active, rs, order) ==
  IF Cardinality(active) = 1
    THEN [op |-> "listMpt", bck |-> b, kind |-> "redirect", status |-> 307,
          target |-> Hrw(MakeUname(b, 0), active), uploads |-> <<>>, asked |-> {}]
    ELSE [op |-> "listMpt", bck |-> b, kind |-> "aggregate", status |-> 200,
          target |-> 0, uploads |-> Aggregate(order, rs, <<>>),
          asked |-> {order[i] : i \in DOMAIN order}]

\* the targets of the cluster map, the active ones among them, and what each
\* target would answer
InitMpt ==
  /\ InitIdle
  /\ bmd = WithDst([b \in Buckets |-> NoBck], 1)
  /\ cbmd = bmd
  /\ smap \in SUBSET Nodes
  /\ gone = {}
  /\ madeBy = [b \in Buckets |-> ""]
  /\ resp = NoResp
  /\ \E active \in SUBSET smap, rs \in [smap -> MptAnswers] :
       call = [fn |-> "listMultipart", in |-> [active |-> active, rs |-> rs], out |-> <<>>]

\* GET /s3/<bucket-name>?uploads, after getObjS3 has found the bucket and
\* the GET access
ListMultipart(b) ==
  /\ call.fn = "listMultipart" /\ resp = NoResp
  /\ bmd[b].present
  /\ \E order \in VisitOrders(smap) :
       resp' = listMultipart(b, call.in.active, call.in.rs, order)
  /\ UNCHANGED <<bmd, cbmd, smap, gone, madeBy, tcVars, call>>

SpecMpt == InitMpt /\ [][\E b \in Buckets : ListMultipart(b)]_vars

\* ------------------------------------------------------------ multi-delete
\* the body of the request: zero bytes, bytes that are not a Delete document,
\* or a Delete document with its keys in order
KeyLists == UNION {[1..n -> 1..MaxObjNames] : n \in 0..MaxKeys}
DelBodies ==
  {[kind |-> "empty", keys |-> <<>>], [kind |-> "malformed", keys |-> <<>>]}
    \cup {[kind |-> "doc", keys |-> k] : k \in KeyLists}

\* decoder.Decode(objList): io.EOF on zero bytes, a syntax error on bytes
\* that are not XML
DecodeFails(body) == body.kind # "doc"

\* a result that reports the first key only
DeleteResultFirst(names) == IF names = <<>> THEN <<>> ELSE <<Head(names)>>

\* the DeleteResult: one DeletedObjInfo per name of lrMsg.ObjNames, in order
DeleteResult(names) == [i \in 1..Len(names) |-> names[i]]

MultiDelResp(p, b, body, status, doc, entries, called) ==
  [op |-> "multiDel", by |-> p, bck |-> b, body |-> body, status |-> status,
   doc |-> doc, entries |-> entries, listrange |-> called]

\* proxy.delMultipleObjs; lrErr: p.listrange returns an error. The error is
\* written and the DeleteResult is written after it
delMultipleObjs(p, b, body, lrErr) ==
  LET m == LocalBmd(p) IN
    IF InitByNameOnly(b, m) # 0
      THEN MultiDelResp(p, b, body, InitByNameOnly(b, m), "error", <<>>, FALSE)
    ELSE IF ~Allow(m[b], "DELETE") THEN MultiDelResp(p, b, body, 403, "error", <<>>, FALSE)
    ELSE IF DecodeFails(body) THEN MultiDelResp(p, b, body, 400, "error", <<>>, FALSE)
    ELSE IF Len(body.keys) = 0 THEN MultiDelResp(p, b, body, 200, "none", <<>>, FALSE)
    ELSE MultiDelResp(p, b, body, IF lrErr THEN 400 ELSE 200,
                      IF lrErr THEN "error+DeleteResult" ELSE "DeleteResult",
                      DeleteResult(body.keys), TRUE)

DelMultiple(p, b, body, lrErr) ==
  /\ resp' = delMultipleObjs(p, b, body, lrErr)
  /\ UNCHANGED <<bmd, cbmd, smap, gone, madeBy, tcVars, call>>

InitMultiDel ==
  /\ InitIdle /\ call = NoCall
  /\ bmd \in [Buckets -> BckStates]
  /\ cbmd \in {bmd, [b \in Buckets |-> NoBck]}
  /\ smap = Nodes
  /\ gone = {}
  /\ madeBy = [b \in Buckets |-> ""]
  /\ resp = NoResp

\* one request is followed: the reply does not depend on earlier requests
NextMultiDel ==
  /\ resp = NoResp
  /\ \E p \in Proxies, b \in Buckets, body \in DelBodies, lrErr \in BOOLEAN :
       DelMultiple(p, b, body, lrErr)

SpecMultiDel == InitMultiDel /\ [][NextMultiDel]_vars

\* ------------------------------------------------------------ list objects
\* the keys of the bucket are numbers, listed in ascending order; token 0 is
\* the empty continuation token and UUID 0 the empty UUID
LsKeys == 1..MaxLsKeys
PageSizes == 1..MaxPageSize

\* the first n keys of the set, ascending
RECURSIVE FirstKeys(_, _)
FirstKeys(K, n) ==
  IF K = {} \/ n = 0 THEN <<>>
  ELSE LET k == CHOOSE x \in K : \A y \in K : x <= y IN <<k>> \o FirstKeys(K \ {k}, n - 1)

\* p.lsPage: the next page after the token, at most size keys, with the
\* token of the page that follows (empty on the last page) and the UUID of
\* the listing job that made it
lsPage(K, token, size, uuid) ==
  LET rest == {k \in K : k > token}
      ents == FirstKeys(rest, size)
  IN [entries |-> ents, uuid |-> uuid,
      token |-> IF Cardinality(rest) > size THEN ents[Len(ents)] ELSE 0]

\* a merge that drops the page
KeepEntries(lstEntries, pageNum, page) == IF pageNum = 1 THEN page.entries ELSE lstEntries

\* lsAllPagesS3: lst = page on the first page, append on the others
MergeEntries(lstEntries, pageNum, page) ==
  IF pageNum = 1 THEN page.entries ELSE lstEntries \o page.entries

\* debug.Assert(lst.UUID == page.UUID): a panic in a build with the debug
\* tag, nothing in any other build
AssertPanics(build, lstUuid, page) == build = "debug" /\ lstUuid # page.uuid

\* the listing of one request: the keys of the bucket, the page size, the
\* build, lsmsg (uuid, token), lst (entries, lstUuid), the number of pages
\* fetched, and the requests sent and pages received so far
InitLs ==
  /\ InitIdle
  /\ InitS3Idle
  /\ \E K \in SUBSET LsKeys, size \in PageSizes, build \in {"debug", "release"} :
       call = [fn |-> "ls", keys |-> K, size |-> size, build |-> build,
               uuid |-> 0, token |-> 0, entries |-> <<>>, lstUuid |-> 0, pageNum |-> 0,
               reqs |-> <<>>, pages |-> <<>>, at |-> "paging"]

\* one round of the loop of lsAllPagesS3; u is the UUID of the page that
\* p.lsPage returns: any for a new listing, and for a later page the UUID
\* of the request or, from a target at fault, another one
LsNextPage(u) ==
  /\ call.fn = "ls" /\ call.at = "paging"
  /\ call.uuid = 0 => u # 0
  /\ LET page == lsPage(call.keys, call.token, call.size, u)
         pageNum == call.pageNum + 1
         lstUuid == IF pageNum = 1 THEN page.uuid ELSE call.lstUuid
     IN call' = [call EXCEPT
           !.reqs = Append(@, [uuid |-> call.uuid, token |-> call.token]),
           !.pages = Append(@, page),
           !.pageNum = pageNum,
           !.entries = MergeEntries(@, pageNum, page),
           !.lstUuid = lstUuid,
           !.uuid = IF pageNum = 1 THEN page.uuid ELSE @,
           !.token = IF page.token = 0 THEN @ ELSE page.token,
           !.at = IF AssertPanics(call.build, lstUuid, page) THEN "panic"
                  ELSE IF page.token = 0 THEN "listed" ELSE "paging"]
  /\ UNCHANGED <<tcVars, s3Vars>>

\* listObjectsS3 after lsAllPagesS3 has returned: the result is written
LsReply ==
  /\ call.fn = "ls" /\ call.at = "listed"
  /\ call' = [call EXCEPT !.at = "replied"]
  /\ resp' = [op |-> "ls", status |-> 200, entries |-> call.entries]
  /\ UNCHANGED <<tcVars, bmd, cbmd, smap, gone, madeBy>>

NextLs ==
  \/ \E u \in 0..MaxUuid : LsNextPage(u)
  \/ LsReply

SpecLs == InitLs /\ [][NextLs]_vars

\* ------------------------------------------------------- request routing
\* a request: method, number of path items after /s3 (MaxItems stands for
\* two or more), and the keys of the query
Methods == {"HEAD", "GET", "PUT", "POST", "DELETE", "PATCH"}
ItemCounts == 0..MaxItems
UnsupportedKeys == {"lifecycle", "policy", "cors", "acl"}
QueryKeys == UnsupportedKeys \cup {"versioning", "uploads", "uploadId", "delete"}

\* proxy.s3Handler: the handler a request is given to
s3Handler(method, n, q) ==
  CASE method = "HEAD" ->
         IF n = 0 THEN "errS3Req" ELSE IF n = 1 THEN "headBckS3" ELSE "headObjS3"
    [] method = "GET" ->
         IF n = 0 THEN "bckNamesFromBMD"
         ELSE IF q \cap UnsupportedKeys # {} THEN "unsupported"
         ELSE IF n = 1 /\ "uploads" \notin q
           THEN IF "versioning" \in q THEN "getBckVersioningS3" ELSE "listObjectsS3"
         ELSE "getObjS3"
    [] method = "PUT" ->
         IF n = 0 THEN "errS3Req"
         ELSE IF n = 1
           THEN IF "versioning" \in q THEN "putBckVersioningS3" ELSE "putBckS3"
         ELSE "putObjS3"
    [] method = "POST" ->
         IF "uploadId" \in q \/ "uploads" \in q THEN "handleMptUpload"
         ELSE IF n # 1 THEN "errS3Req"
         ELSE IF "delete" \notin q THEN "errS3Req"
         ELSE "delMultipleObjs"
    [] method = "DELETE" ->
         IF n = 0 THEN "errS3Req"
         ELSE IF n = 1
           THEN IF "delete" \in q THEN "delMultipleObjs" ELSE "delBckS3"
         ELSE "delObjS3"
    [] OTHER -> "WriteErr405"

\* a reply of 501 without a look at the BMD
unsupportedAtOnce(p, b) == 501

\* proxy.unsupported: the bucket's error code, or 501
unsupported(p, b) ==
  IF InitByNameOnly(b, LocalBmd(p)) # 0 THEN InitByNameOnly(b, LocalBmd(p)) ELSE 501

\* the request is routed; status: the reply of unsupported (0 for the other
\* handlers, whose replies are not followed here); panic: handleMptUpload
\* evaluates parts[0] of an empty path; lm: the listMultipart argument of
\* getObjS3; before: the BMD when the request came in
S3Route(p, method, n, q, b) ==
  /\ LET h == s3Handler(method, n, q) IN
       resp' = [op |-> "route", by |-> p, method |-> method, n |-> n, q |-> q, bck |-> b,
                handler |-> h,
                status |-> IF h = "unsupported" THEN unsupported(p, b) ELSE 0,
                panic |-> h = "handleMptUpload" /\ n = 0,
                lm |-> h = "getObjS3" /\ "uploads" \in q,
                before |-> bmd]
  /\ UNCHANGED <<bmd, cbmd, smap, gone, madeBy, tcVars, call>>

InitS3Route ==
  /\ InitIdle /\ call = NoCall
  /\ bmd \in {[b \in Buckets |-> NoBck], WithDst([b \in Buckets |-> NoBck], 1)}
  /\ cbmd \in {bmd, [b \in Buckets |-> NoBck]}
  /\ smap = Nodes
  /\ gone = {}
  /\ madeBy = [b \in Buckets |-> ""]
  /\ resp = NoResp

\* the handlers change nothing at the gateway, so one request is followed
NextS3Route ==
  /\ resp = NoResp
  /\ \E p \in Proxies, method \in Methods, n \in ItemCounts, q \in SUBSET QueryKeys, b \in Buckets :
       S3Route(p, method, n, q, b)

SpecS3Route == InitS3Route /\ [][NextS3Route]_vars

\* ====================================================== FUSE namespace cache
\* a path is its sequence of names; with the type it makes an entry name:
\* "a/b/c" is <<a, b, c>> of a file, "a/b/c/" is <<a, b, c>> of a directory
CacheNames == 1..MaxNames
CachePaths == UNION {[1..n -> CacheNames] : n \in 1..MaxDepth}
EntryTypes == {"file", "dir"}
InodeIds == 0..MaxIds
invalidInodeID == 0
FileSizes == 0..MaxIds

\* splitEntryName: the names on the way to the entry; all but the last are
\* directory names
splitEntryName(ty, path) ==
  [i \in 1..Len(path) |-> [name |-> path[i], ty |-> IF i < Len(path) THEN "dir" ELSE ty]]

\* the paths of the directories above the entry, the nearest last
AncestorDirs(path) == {SubSeq(path, 1, k) : k \in 1..(Len(path) - 1)}

\* the entry is somewhere underneath the directory
Underneath(dir, path) == Len(dir) < Len(path) /\ SubSeq(path, 1, Len(dir)) = dir

\* cache.exists(path)
exists(entries, ty, path) == \E e \in entries : e.ty = ty /\ e.path = path

\* an add that stores the entry and no directory above it
cacheAddLeaf(entries, ty, path, id, size) ==
  {e \in entries : ~(e.ty = ty /\ e.path = path)}
    \cup {[ty |-> ty, path |-> path, id |-> id, size |-> IF ty = "file" THEN size ELSE 0]}

\* cache.add(ty, dtAttrs{id, path, size}): the directories above the entry
\* are created where they are missing, and the entry is stored under its name
cacheAdd(entries, ty, path, id, size) ==
  {e \in entries : ~(e.ty = ty /\ e.path = path)}
    \cup {[ty |-> "dir", path |-> a, id |-> invalidInodeID, size |-> 0] :
            a \in {d \in AncestorDirs(path) : ~exists(entries, "dir", d)}}
    \cup {[ty |-> ty, path |-> path, id |-> id, size |-> IF ty = "file" THEN size ELSE 0]}

\* a remove that takes the entry and leaves what is underneath
cacheRemoveOne(entries, ty, path) == {e \in entries : ~(e.ty = ty /\ e.path = path)}

\* cache.remove(path): the entry goes, and with a directory all that is
\* underneath it
cacheRemove(entries, ty, path) ==
  {e \in entries : ~(e.ty = ty /\ e.path = path) /\ ~(ty = "dir" /\ Underneath(path, e.path))}

\* newNsCache: an empty cache
InitCache ==
  /\ InitIdle
  /\ InitS3Idle
  /\ call = [fn |-> "cache", entries |-> {}, prev |-> {}, last |-> [op |-> ""]]

CacheAdd(ty, path, id, size) ==
  /\ call.fn = "cache"
  /\ call' = [call EXCEPT !.entries = cacheAdd(@, ty, path, id, size),
                          !.prev = call.entries,
                          !.last = [op |-> "add", ty |-> ty, path |-> path,
                                    id |-> id, size |-> size]]
  /\ UNCHANGED <<tcVars, s3Vars>>

CacheRemove(ty, path) ==
  /\ call.fn = "cache"
  /\ call' = [call EXCEPT !.entries = cacheRemove(@, ty, path),
                          !.prev = call.entries,
                          !.last = [op |-> "remove", ty |-> ty, path |-> path,
                                    id |-> 0, size |-> 0]]
  /\ UNCHANGED <<tcVars, s3Vars>>

\* the directories that can be listed: the root ("") and every directory path
ListDirs == {<<>>} \cup CachePaths

\* the entry is directly in the directory: one name below it
ChildOf(dir, path) == Len(path) = Len(dir) + 1 /\ SubSeq(path, 1, Len(dir)) = dir

RECURSIVE VisitAll(_)
\* the callback called once with each entry of a set, in some order
VisitAll(es) ==
  IF es = {} THEN <<>>
  ELSE LET e == CHOOSE x \in es : TRUE IN <<e>> \o VisitAll(es \ {e})

\* a listing that descends into the subdirectories
listEntriesDeep(entries, dir) == VisitAll({e \in entries : Underneath(dir, e.path)})

\* cache.listEntries(dir, cb): the files in the directory and its immediate
\* subdirectories
listEntries(entries, dir) == VisitAll({e \in entries : ChildOf(dir, e.path)})

CacheList(dir) ==
  /\ call.fn = "cache"
  /\ call' = [call EXCEPT !.prev = call.entries,
                          !.last = [op |-> "list", path |-> dir,
                                    visited |-> listEntries(call.entries, dir)]]
  /\ UNCHANGED <<tcVars, s3Vars>>

NextCache ==
  \/ \E ty \in EntryTypes, path \in CachePaths, id \in InodeIds, size \in FileSizes :
       CacheAdd(ty, path, id, size)
  \/ \E ty \in EntryTypes, path \in CachePaths : CacheRemove(ty, path)
  \/ \E dir \in ListDirs : CacheList(dir)

SpecCache == InitCache /\ [][NextCache]_vars

\* ===================================================== CLI: object commands
\* the commands that share the list, range and multi-object handlers, and
\* the calls of the API that they make; HeadBucket and the local parse of
\* the template change nothing in the cluster
CliCommands == {"remove", "prefetch", "evict"}
CliHandlers == {"listOp", "rangeOp", "multiObjOp"}
MutatingCalls ==
  {"DeleteList", "PrefetchList", "EvictList", "DeleteRange", "PrefetchRange", "EvictRange",
   "DeleteObject", "EvictObject"}

CliOut(calls, lines, failed) == [calls |-> calls, lines |-> lines, err |-> failed]

\* listOp: with the dry-run flag the names are printed; otherwise the
\* command's list call is made (prefetch and evict need a bucket with a
\* provider)
listOp(cmd, dry, provider, apiOk) ==
  IF dry THEN CliOut(<<>>, 1, FALSE)
  ELSE IF cmd # "remove" /\ ~provider THEN CliOut(<<>>, 0, TRUE)
  ELSE LET api == IF cmd = "remove" THEN "DeleteList"
                  ELSE IF cmd = "prefetch" THEN "PrefetchList" ELSE "EvictList"
       IN IF apiOk THEN CliOut(<<api>>, 1, FALSE) ELSE CliOut(<<api>>, 0, TRUE)

\* rangeOp: with the dry-run flag the template is parsed locally and its
\* names, or the parse error, are printed; otherwise the command's range call
\* is made
rangeOp(cmd, dry, provider, apiOk) ==
  IF dry THEN CliOut(<<>>, 1, FALSE)
  ELSE IF cmd # "remove" /\ ~provider THEN CliOut(<<>>, 0, TRUE)
  ELSE LET api == IF cmd = "remove" THEN "DeleteRange"
                  ELSE IF cmd = "prefetch" THEN "PrefetchRange" ELSE "EvictRange"
       IN IF apiOk THEN CliOut(<<api>>, 1, FALSE) ELSE CliOut(<<api>>, 0, TRUE)

\* multiObjOp, the loop over the n arguments that are left: the bucket is
\* headed; remove deletes the object; evict refuses a bucket that is not
\* remote, prints with the dry-run flag and evicts without it; the loop stops
\* at the first error
RECURSIVE multiObjOp(_, _, _, _, _, _, _)
multiObjOp(cmd, dry, remote, apiOk, n, calls, lines) ==
  IF n = 0 THEN CliOut(calls, lines, FALSE)
  ELSE LET c1 == Append(calls, "HeadBucket") IN
    IF cmd = "remove"
      THEN IF apiOk
             THEN multiObjOp(cmd, dry, remote, apiOk, n - 1, Append(c1, "DeleteObject"), lines + 1)
             ELSE CliOut(Append(c1, "DeleteObject"), lines, TRUE)
    ELSE IF cmd = "evict"
      THEN IF ~remote THEN CliOut(c1, lines, TRUE)
           ELSE IF dry THEN multiObjOp(cmd, dry, remote, apiOk, n - 1, c1, lines + 1)
           ELSE IF apiOk
             THEN multiObjOp(cmd, dry, remote, apiOk, n - 1, Append(c1, "EvictObject"), lines + 1)
             ELSE CliOut(Append(c1, "EvictObject"), lines, TRUE)
    ELSE multiObjOp(cmd, dry, remote, apiOk, n - 1, c1, lines)

\* one command line: the handler it reaches, the command, the dry-run flag,
\* the bucket (remote, which is with a provider, or not), the number of
\* object arguments, and whether the cluster answers the calls with success
InitCli ==
  /\ InitIdle
  /\ InitS3Idle
  /\ \E h \in CliHandlers, cmd \in CliCommands, dry \in BOOLEAN, remote \in BOOLEAN,
        apiOk \in BOOLEAN, n \in 0..MaxCliArgs :
       call = [fn |-> h,
               in |-> [cmd |-> cmd, dry |-> dry, remote |-> remote, apiOk |-> apiOk, n |-> n],
               out |-> <<>>]

CliListOp ==
  /\ call.fn = "listOp" /\ call.out = <<>>
  /\ call' = [call EXCEPT !.out =
                <<listOp(call.in.cmd, call.in.dry, call.in.remote, call.in.apiOk)>>]
  /\ UNCHANGED <<tcVars, s3Vars>>

CliRangeOp ==
  /\ call.fn = "rangeOp" /\ call.out = <<>>
  /\ call' = [call EXCEPT !.out =
                <<rangeOp(call.in.cmd, call.in.dry, call.in.remote, call.in.apiOk)>>]
  /\ UNCHANGED <<tcVars, s3Vars>>

CliMultiObjOp ==
  /\ call.fn = "multiObjOp" /\ call.out = <<>>
  /\ call' = [call EXCEPT !.out =
                <<multiObjOp(call.in.cmd, call.in.dry, call.in.remote, call.in.apiOk,
                             call.in.n, <<>>, 0)>>]
  /\ UNCHANGED <<tcVars, s3Vars>>

NextCli == CliListOp \/ CliRangeOp \/ CliMultiObjOp

SpecCli == InitCli /\ [][NextCli]_vars

\* =================================================================== claims

RECURSIVE SumTo(_, _)
\* f[1] + ... + f[n]
SumTo(f, n) == IF n = 0 THEN 0 ELSE f[n] + SumTo(f, n - 1)

\* OpcTxnDone messages of txn x received by all targets / broadcast by all
TotalDoneRx(x) == SumTo([t \in Nodes |-> H(t).doneRx[x]], nat)
TotalDoneTx(x) == SumTo([t \in Nodes |-> H(t).doneTx[x]], nat)

\* the peers of t that have broadcast the done of x
DoneSenders(t, x) == {s \in Peers(t) : H(s).doneTx[x] > 0}

\* the jobs of the xaction: the transactions of an XactTCObjs, the one bucket
\* job of an XactTCB
Jobs == IF engine = "tcb" THEN {1} ELSE Txns

\* the job is over on t
Finished(t) == pc[t] = "finished"

\* nothing failed on t: no abort, and no error other than a quiescence timeout
NoFailure(t) == ~abrt[t] /\ err[t] \in {"", "quiesce-timeout"}

\* the job x ended on t with the remaining-ack counter at 0: the TCB
\* quiescence returned with refc = 0, the TCO work item was deleted by the
\* receive handler; on a single target no ack is owed
EndedAtZero(t, x) ==
  /\ Finished(t)
  /\ IF engine = "tcb"
       THEN /\ err[t] # "txn-abort"
            /\ nat > 1 => qres[t] \in {"QuiDone", "Quiescent"}
       ELSE /\ x \in H(t).dispatched
            /\ nat > 1 => H(t).removed[x] = 1

\* C1: on every target and for every dispatched job, the work item's
\* remaining-ack counter is (active targets - 1) minus the dones received so
\* far for the job, also for a done that came between Begin and the dispatch
C1_RefcCountsEveryDone ==
  \A t \in Targets, x \in Txns :
    (engine = "tco" /\ x \in H(t).dispatched)
      => wiRefc[t][x] = (nat - 1) - H(t).doneRx[x]

\* C2: with peers, a work item stays in the pending map of a job without
\* error until every peer's done was received, and a job that ends after
\* every peer's done was delivered has had its work item removed, once
C2_RemovedOnceAllDone ==
  \A t \in Targets, x \in Txns :
    (engine = "tco" /\ nat > 1 /\ x \in H(t).begun) =>
      /\ H(t).removed[x] <= 1
      /\ (err[t] = "" /\ H(t).doneRx[x] < nat - 1) => x \in pending[t]
      /\ (Finished(t) /\ err[t] = "" /\ x \in H(t).dispatched
            /\ H(t).doneRx[x] = nat - 1) => x \notin pending[t]

\* C3: a job that reached Done on a target (iteration completed, no error,
\* Run over) has its receive handler deregistered, its transport closed and
\* no work item in the pending map, for any number of active targets
C3_DoneReleasesAll ==
  \A t \in Targets :
    (engine = "tco" /\ Finished(t) /\ err[t] = "" /\ H(t).completed # {})
      => ~rx[t] /\ dm[t] # "open" /\ pending[t] = {}

\* C4 as stated, for the bucket engine: once every target has completed its
\* local iteration (no abort, no copy or put error) and the job is over
\* everywhere, (N - 1) x N dones were received in total
C4_TotalDoneReceived ==
  \A x \in Jobs :
    (engine = "tcb"
       /\ \A t \in Targets : Finished(t) /\ x \in H(t).completed /\ NoFailure(t))
      => TotalDoneRx(x) = (nat - 1) * nat

\* C4, amended: the dones received in total never exceed (N - 1) x N, and are
\* (N - 1) x N when every target ended the job with its counter at 0
C4_TotalDoneAtZero ==
  \A x \in Jobs :
    /\ TotalDoneRx(x) <= (nat - 1) * nat
    /\ (\A t \in Targets : EndedAtZero(t, x)) => TotalDoneRx(x) = (nat - 1) * nat

C4_Witness ==
  /\ nat = 2 /\ engine = "tcb"
  /\ \A t \in Targets : EndedAtZero(t, 1)
  /\ TotalDoneRx(1) = 2

\* C5 as stated, for the bucket engine: once all targets have finished the
\* job (here: without abort and without copy or put error), as many dones
\* were received as were sent (each broadcast sends one per peer)
C5_SentEqualsReceived ==
  \A x \in Jobs :
    (engine = "tcb" /\ \A t \in Targets : Finished(t) /\ NoFailure(t))
      => TotalDoneRx(x) = (nat - 1) * TotalDoneTx(x)

\* C5, amended: a target receives no more dones than its peers have sent; a
\* done is dropped only at a target that died or that ended the job before
\* its counter reached 0; a target that ended with the counter at 0 has
\* received the done of every peer
C5_DoneDroppedOnlyAfterEarlyEnd ==
  \A t \in Targets, x \in Jobs :
    /\ H(t).doneRx[x] <= Cardinality(DoneSenders(t, x))
    /\ H(t).lostDone[x] > 0 => ~alive[t] \/ (Finished(t) /\ ~EndedAtZero(t, x))
    /\ EndedAtZero(t, x) =>
         /\ H(t).doneRx[x] = nat - 1
         /\ DoneSenders(t, x) = Peers(t)

C5_Witness ==
  \E t \in Targets :
    /\ engine = "tcb" /\ H(t).lostDone[1] > 0
    /\ \E s \in Peers(t) : EndedAtZero(s, 1)

\* C6: no object payload of a job is enqueued by a target after the target's
\* done for that job, the done is broadcast only when the local iteration is
\* over (every object visited, or the job aborted), and at most once per job
C6_DoneAfterPayloads ==
  \A t \in Targets :
    /\ ~H(t).lateObj
    /\ ~H(t).earlyDone
    /\ \A x \in Txns : H(t).doneTx[x] <= 1

\* a stream holds a payload followed by the sender's done
C6_Witness ==
  \E p \in Pairs :
    /\ Len(net[p]) = 2
    /\ net[p][1].op = OpcObject /\ net[p][2].op = OpcTxnDone

\* C7: qcb keeps a target with refc > 0 active unless it times out, returns
\* timeout only with refc > 0, no receive for longer than the keepalive and a
\* total wait above the send-file timeout, never returns timeout with
\* refc = 0, and returns done only with refc = 0 and a receive side idle for
\* longer than one control-plane period
C7_QuiesceDiscipline ==
  (call.fn = "qcb" /\ call.out # <<>>) =>
    LET i == call.in
        res == call.out[1]
    IN /\ (i.refc > 0 /\ res # "QuiTimeout") => res = "QuiActive"
       /\ res = "QuiTimeout" =>
            i.refc > 0 /\ i.since > MaxKeepalive /\ i.tot > SendFileTimeout
       /\ i.refc = 0 => res # "QuiTimeout"
       /\ res = "QuiDone" => i.refc = 0 /\ i.since > CplaneOperation

\* C8: a target that survives a peer which died during the job before sending
\* its done, and was not aborted, ends the job with quiesce-timeout reported
\* and all state released: handler deregistered, transport closed, pending
\* map empty
C8_DeadPeerTimesOut ==
  \A t \in Targets :
    (/\ alive[t] /\ Finished(t) /\ ~abrt[t] /\ err[t] # "txn-abort"
     /\ H(t).peerDead
     /\ \E s \in Peers(t) : ~alive[s] /\ H(s).doneTx[1] = 0
     /\ engine = "tco" => 1 \in H(t).completed)
      => /\ ~rx[t] /\ dm[t] # "open" /\ pending[t] = {}
         /\ err[t] = "quiesce-timeout" \/ qres[t] = "QuiTimeout"

\* C9: on every target the data mover is opened at most once, closed and
\* deregistered at most once, and a finished job has closed and deregistered
\* the data mover it opened
C9_ClosedExactlyOnce ==
  \A t \in Targets :
    /\ H(t).opens <= 1 /\ H(t).closes <= 1 /\ H(t).unregs <= 1
    /\ (Finished(t) /\ H(t).opens = 1) =>
         /\ H(t).closes = 1 /\ H(t).unregs = 1
         /\ dm[t] = "closed" /\ ~rx[t]

\* a job that was aborted while running, and one that timed out, are over
C9_Witness ==
  \E t \in Targets :
    /\ engine = "tcb" /\ Finished(t) /\ H(t).opens = 1 /\ H(t).closes = 1
    /\ qres[t] = "QuiTimeout"
    /\ \E s \in Peers(t) : Finished(s) /\ abrt[s] /\ H(s).closes = 1

\* C10: every call of a receive handler drains and frees the reader
C10_ReaderAlwaysDrained ==
  (call.fn = "recv" /\ call.out # <<>>) => call.out[1].drained

\* C11: an error of copying one object is handed to the job's error sink
\* (which aborts the job) unless it is object-not-found in list mode and the
\* job carries continue-on-error; only that error is suppressed
C11_OnlyListNotFoundSuppressed ==
  (call.fn = "do" /\ call.out # <<>> /\ call.in.cerr # "nil") =>
    (call.out[1].addErr <=>
       ~(call.in.cerr = "notfound" /\ call.in.lrp = "list" /\ call.in.contOnErr))

\* C12: when the job has ended with an error on every target, the
\* destination bucket is gone if and only if the job's begin phase created it
C12_DstDestroyedIffCreated ==
  (/\ engine = "tco" /\ madeBy[DstBck] # ""
   /\ \A t \in Targets : Finished(t)
   /\ \E t \in Targets : err[t] # "")
    => (~bmd[DstBck].present <=> madeBy[DstBck] = "job")

\* C13: once every job has completed its iteration on every target and the
\* xaction is over everywhere without an error, every object that an
\* iteration handed to the data mover was put at its owner, so that no
\* name-transformed matching key is missing from the destination
C13_EveryMatchingKeyStored ==
  (/\ engine = "tco"
   /\ \A t \in Targets : Finished(t) /\ err[t] = "" /\ H(t).completed = Txns)
    => \A t \in Targets :
         /\ ~H(t).lostObj
         /\ \A s \in Peers(t) : \A k \in 1..Len(net[<<s, t>>]) : net[<<s, t>>][k].op # OpcObject

\* C14: the syncRemote passed to the per-object copy is: plain copy, no
\* prepend, source bucket equal to destination bucket; both engines agree
C14_SyncRemoteOnlySameName ==
  (call.fn = "do" /\ call.out # <<>>) =>
    /\ call.out[1].syncRemote <=>
         (call.in.kind = "copy" /\ call.in.prepend = "" /\ call.in.sameBck)
    /\ call.out[1].syncRemote = call.out[2]

C14_Witness ==
  /\ call.fn = "do" /\ call.out # <<>>
  /\ call.in.kind = "copy" /\ call.in.sameBck /\ call.in.prepend # ""
  /\ ~call.out[1].syncRemote

\* C16: a bucket create, destroy or versioning-set that a non-primary proxy
\* receives is always forwarded to and answered by the primary
C16_AlwaysForwarded ==
  (resp.op \in {"putBck", "delBck", "putVer"} /\ resp.by # Primary)
    => resp.fwd /\ resp.served = Primary

\* C17: a DeleteBucket of a bucket that an earlier DeleteBucket has destroyed
\* (and that was not created again) returns success
C17_DeleteTwiceSucceeds ==
  (resp.op = "delBck" /\ resp.wasGone) => resp.status = 200

\* C18: a PutBucket of a bucket that an earlier PutBucket has created (and
\* that was not destroyed since) returns success and changes nothing
C18_PutTwiceSucceeds ==
  (resp.op = "putBck" /\ resp.had) => resp.status = 200

\* the reply went to the target that HRW selects for (bucket b, object o)
ToOwner(b, o) == smap # {} /\ resp.target = Hrw(MakeUname(b, o), smap)

\* the gateway's BMD holds the bucket of the request with the access allowed
BckAllows(p, b, ace) == LocalBmd(p)[b].present /\ Allow(LocalBmd(p)[b], ace)

\* C19: with the bucket in the gateway's BMD, the access allowed, a valid
\* object name and a target to select, GET, PUT without copy-source and DELETE
\* are redirected to the HRW target of uname(bucket, object), and HEAD is
\* reverse-proxied to that target; a HEAD is never redirected
C19_RedirectToOwner ==
  /\ (/\ resp.op \in {"get", "put", "del"} /\ resp.src = NoSrc /\ ~resp.lm
      /\ BckAllows(resp.by, resp.bck,
                   IF resp.op = "get" THEN "GET" ELSE IF resp.op = "put" THEN "PUT" ELSE "DELETE")
      /\ ValidateObjName(resp.obj) /\ smap # {})
       => resp.kind = "redirect" /\ ToOwner(resp.bck, resp.obj)
  /\ (/\ resp.op = "head"
      /\ BckAllows(resp.by, resp.bck, "HEAD")
      /\ ValidateObjName(resp.obj) /\ smap # {})
       => resp.kind = "proxied" /\ ToOwner(resp.bck, resp.obj)
  /\ resp.op = "head" => resp.kind # "redirect"

C19_Witness ==
  /\ resp.op = "head" /\ resp.kind = "proxied" /\ resp.by # Primary
  /\ Cardinality(smap) > 1 /\ ToOwner(resp.bck, resp.obj)

\* C20: a PUT with a well-formed copy-source header is redirected only if
\* the source and the destination bucket are in the gateway's BMD and GET on
\* the source and PUT on the destination are allowed, and then to the HRW
\* target of the source bucket and source object
C20_CopyToSourceOwner ==
  (resp.op = "put" /\ resp.src # NoSrc /\ resp.kind = "redirect") =>
    /\ resp.src # BadSrc
    /\ BckAllows(resp.by, resp.src.bck, "GET")
    /\ BckAllows(resp.by, resp.bck, "PUT")
    /\ ToOwner(resp.src.bck, resp.src.obj)

\* a copy redirected to the owner of the source, which is not the owner of
\* the destination object
C20_Witness ==
  /\ resp.op = "put" /\ resp.src # NoSrc /\ resp.kind = "redirect"
  /\ ToOwner(resp.src.bck, resp.src.obj)
  /\ resp.target # Hrw(MakeUname(resp.bck, resp.obj), smap)

\* C15: the occupancy of the work channel never exceeds maxNumInParallel; a
\* Do whose send finds the channel full stays before its send for as long as
\* the channel is full; and a Do that reads, after its send, an occupancy
\* above half the capacity yields
C15_BoundedWorkChannel ==
  /\ [](/\ call.ch <= maxNumInParallel
        /\ \A c \in Callers :
             call.at[c] = "done" =>
               (call.yielded[c] <=> 2 * call.seen[c] > maxNumInParallel))
  /\ [][\A c \in Callers :
          (call.at[c] = "idle" /\ call.ch = maxNumInParallel /\ call'.ch = maxNumInParallel)
            => call'.at[c] = "idle"]_vars

\* the channel is full with an enqueuer waiting before its send, and an
\* enqueuer has yielded at an occupancy above half of, and below, the capacity
C15_Witness ==
  /\ call.fn = "Do" /\ call.ch = maxNumInParallel
  /\ \E c, d \in Callers :
       /\ call.at[c] = "idle"
       /\ call.at[d] = "done" /\ call.yielded[d]
       /\ 2 * call.seen[d] > maxNumInParallel /\ call.seen[d] < maxNumInParallel

\* the number of times upload u is in the list
RECURSIVE CountIn(_, _)
CountIn(u, list) ==
  IF list = <<>> THEN 0 ELSE (IF Head(list) = u THEN 1 ELSE 0) + CountIn(u, Tail(list))

\* the number of times upload u is in the answers of the targets of m
RECURSIVE CountInAnswers(_, _, _)
CountInAnswers(u, rs, m) ==
  IF m = {} THEN 0
  ELSE LET t == CHOOSE x \in m : TRUE IN
         (IF rs[t].ok THEN CountIn(u, rs[t].uploads) ELSE 0) + CountInAnswers(u, rs, m \ {t})

\* C21: with exactly one active target the list of multipart uploads is a
\* redirect to that target; otherwise every target of the cluster map is
\* asked and the reply is one result, status 200, that holds each upload as
\* many times as the answers of the targets hold it
C21_RedirectOrAggregate ==
  resp.op = "listMpt" =>
    IF Cardinality(call.in.active) = 1
      THEN resp.kind = "redirect" /\ resp.target \in call.in.active
      ELSE /\ resp.kind = "aggregate" /\ resp.status = 200
           /\ resp.asked = smap
           /\ \A u \in UploadIds : CountIn(u, resp.uploads) = CountInAnswers(u, call.in.rs, smap)

\* two targets were asked and each of them had uploads to report
C21_Witness ==
  /\ resp.op = "listMpt" /\ resp.kind = "aggregate"
  /\ \E s, t \in smap : /\ s # t
                      /\ call.in.rs[s].ok /\ call.in.rs[s].uploads # <<>>
                      /\ call.in.rs[t].ok /\ call.in.rs[t].uploads # <<>>

\* a multi-delete on a bucket of the gateway's BMD that allows DELETE
PermittedMultiDel ==
  resp.op = "multiDel" /\ BckAllows(resp.by, resp.bck, "DELETE")

\* C22: a multi-delete on an existing, permitted bucket whose body lists the
\* keys K is answered with a DeleteResult of the keys of K, each once per
\* occurrence and in the order of the request
C22_EveryKeyReported ==
  (PermittedMultiDel /\ resp.body.kind = "doc" /\ resp.body.keys # <<>>) =>
    /\ resp.doc \in {"DeleteResult", "error+DeleteResult"}
    /\ resp.entries = resp.body.keys

C22_Witness ==
  /\ PermittedMultiDel /\ resp.doc = "DeleteResult" /\ resp.status = 200
  /\ Len(resp.body.keys) = MaxKeys /\ resp.entries = resp.body.keys
  /\ resp.body.keys[1] # resp.body.keys[2]

\* C23: a multi-delete without keys (no body, or a document that lists no
\* key) on an existing, permitted bucket is answered 200 with an empty
\* DeleteResult document, and no delete is run
C23_EmptyBodyEmptyResult ==
  (PermittedMultiDel /\ resp.body.kind \in {"empty", "doc"} /\ resp.body.keys = <<>>) =>
    /\ resp.status = 200
    /\ resp.doc = "DeleteResult" /\ resp.entries = <<>>
    /\ ~resp.listrange

\* a routed GET whose query has one of the unsupported bucket subresources
UnsupportedGet ==
  resp.op = "route" /\ resp.method = "GET" /\ resp.n >= 1 /\ resp.q \cap UnsupportedKeys # {}

\* C24: a GET with a lifecycle, policy, cors or acl key is answered 501 only
\* when the bucket is in the gateway's BMD; for a bucket that is not, the
\* reply is the not-found error; the BMD is left as it was
C24_NotImplementedAfterValidation ==
  UnsupportedGet =>
    /\ resp.status = (IF LocalBmd(resp.by)[resp.bck].present THEN 501 ELSE 404)
    /\ bmd = resp.before

C24_Witness ==
  UnsupportedGet /\ ~LocalBmd(resp.by)[resp.bck].present /\ resp.status = 404

\* the concatenation of the entries of the pages
RECURSIVE ConcatPages(_)
ConcatPages(pages) ==
  IF pages = <<>> THEN <<>> ELSE Head(pages).entries \o ConcatPages(Tail(pages))

\* C25: every page request after the first carries the UUID that came with
\* the first page, and a result is returned only from pages that all have
\* that UUID: a page with another UUID is not merged into it
C25_OneUuidPerListing ==
  call.fn = "ls" =>
    /\ \A i \in 2..Len(call.reqs) : call.reqs[i].uuid = call.pages[1].uuid
    /\ call.at \in {"listed", "replied"} =>
         \A i \in 1..Len(call.pages) : call.pages[i].uuid = call.pages[1].uuid

\* C26: the result is the concatenation of the entries of the pages in page
\* order, one request per page, each for the token of the page before; only
\* the last page has an empty token; and the result holds every key of the
\* bucket once
C26_EveryKeyOnce ==
  (call.fn = "ls" /\ call.at = "replied") =>
    /\ resp.entries = ConcatPages(call.pages)
    /\ Len(call.reqs) = Len(call.pages)
    /\ call.reqs[1].token = 0
    /\ \A i \in 2..Len(call.reqs) : call.reqs[i].token = call.pages[i - 1].token
    /\ \A i \in 1..Len(call.pages) : call.pages[i].token = 0 <=> i = Len(call.pages)
    /\ {resp.entries[i] : i \in 1..Len(resp.entries)} = call.keys
    /\ Len(resp.entries) = Cardinality(call.keys)

\* a listing of three pages, replied
C26_Witness ==
  /\ call.fn = "ls" /\ call.at = "replied"
  /\ Len(call.pages) >= 3 /\ Len(resp.entries) = MaxLsKeys

\* C27: a GET with one path item, versioning in the query and no unsupported
\* key returns the versioning configuration whatever other keys are there;
\* uploads without versioning lists the multipart uploads; anything else
\* lists the objects
C27_VersioningWins ==
  (resp.op = "route" /\ resp.method = "GET" /\ resp.n = 1
     /\ resp.q \cap UnsupportedKeys = {}) =>
    resp.handler = (IF "versioning" \in resp.q THEN "getBckVersioningS3"
                    ELSE IF "uploads" \in resp.q THEN "getObjS3"
                    ELSE "listObjectsS3")

\* C28: a POST goes to the multipart handler exactly when the query has
\* uploads or uploadId and the path has a bucket and an object; a POST with
\* one path item and delete is a multi-delete; any other POST is rejected as
\* an invalid request
C28_PostRouting ==
  (resp.op = "route" /\ resp.method = "POST") =>
    /\ ~resp.panic
    /\ resp.handler =
         (IF resp.n >= 2 /\ ("uploads" \in resp.q \/ "uploadId" \in resp.q) THEN "handleMptUpload"
          ELSE IF resp.n = 1 /\ "delete" \in resp.q THEN "delMultipleObjs"
          ELSE "errS3Req")

AceOf(op) ==
  IF op = "get" THEN "GET" ELSE IF op = "put" THEN "PUT"
  ELSE IF op = "del" THEN "DELETE" ELSE "HEAD"

\* C32: a request whose bucket is not in the gateway's BMD, whose access is
\* not allowed, whose object name is invalid, or that finds no active target
\* is answered with an error and reaches no target: no redirect, no
\* reverse-proxy, no target asked
C32_ErrorReachesNoTarget ==
  /\ (/\ resp.op \in {"get", "put", "del", "head"}
      /\ \/ ~BckAllows(resp.by, resp.bck, AceOf(resp.op))
         \/ resp.src.kind = "ok" /\ ~BckAllows(resp.by, resp.src.bck, "GET")
         \/ ~resp.lm /\ ~ValidateObjName(resp.obj)
         \/ ~resp.lm /\ smap = {})
       => resp.kind = "error" /\ resp.target = 0
  /\ (resp.op = "listMpt" /\ call.in.active = {})
       => resp.kind = "error" /\ resp.asked = {}

\* C33: a multi-delete is answered once, with an error or with a success; an
\* error is never followed by a DeleteResult, and when the delete behind it
\* fails no key is listed as deleted
C33_OneOutcome ==
  resp.op = "multiDel" =>
    /\ resp.doc \in {"error", "DeleteResult", "none"}
    /\ resp.status # 200 => resp.entries = <<>>

\* C34: a request without a path item is never given to a handler that reads
\* item 0: GET lists the buckets, and HEAD, PUT, POST and DELETE are rejected
\* with the invalid-request error
C34_NoHandlerOnEmptyPath ==
  (resp.op = "route" /\ resp.n = 0) =>
    /\ ~resp.panic
    /\ resp.method = "GET" => resp.handler = "bckNamesFromBMD"
    /\ resp.method \in {"HEAD", "PUT", "POST", "DELETE"} => resp.handler = "errS3Req"

\* the stream from s to t holds an object payload
PayloadInFlight(s, t) == \E i \in 1..Len(net[<<s, t>>]) : net[<<s, t>>][i].op = OpcObject

\* C35: a target that ended the bucket job with its remaining-ack counter at
\* 0 (the quiescence returned done or idled out, not timeout or abort) has
\* been given every object payload its peers sent to it: none was dropped
\* for want of a receive handler and none is still on its way
C35_DrainedBeforeClose ==
  \A t \in Targets :
    (engine = "tcb" /\ nat > 1 /\ Finished(t) /\ qres[t] \in {"QuiDone", "Quiescent"}) =>
      /\ ~H(t).lostObj
      /\ \A s \in Peers(t) : ~PayloadInFlight(s, t)

\* a target that was sent a payload ended at 0 while its peer timed out
C35_Witness ==
  \E t \in Targets :
    /\ engine = "tcb" /\ Finished(t) /\ qres[t] = "QuiDone" /\ H(t).objRx > 0
    /\ \E s \in Peers(t) : Finished(s) /\ qres[s] = "QuiTimeout"

\* C36: the remaining-ack counter of the bucket engine is never negative: a
\* target counts no more dones than the (active targets - 1) it stored in
\* Start, also when the targets read different snapshots of the cluster map
C36_RefcNeverNegative ==
  call.fn = "snap" =>
    \A t \in SnapNodes :
      /\ call.refc[t] >= 0
      /\ call.doneRx[t] <= RefcAtStart(CountActiveTs(call.view[t]))

\* C37: with at most one active target the bucket engine has no data mover
\* and no operation of the xaction calls one: nothing is opened, closed or
\* deregistered, no method is called on the missing data mover, no done is
\* broadcast and no quiescence is run
C37_NoDataMoverNoUse ==
  \A t \in Targets :
    (engine = "tcb" /\ nat <= 1) =>
      /\ dm[t] = "nil" /\ ~rx[t]
      /\ ~H(t).nilDm
      /\ H(t).opens = 0 /\ H(t).closes = 0 /\ H(t).unregs = 0
      /\ H(t).doneTx[1] = 0 /\ qres[t] = ""

\* C38: a renewal that finds a bucket xaction running takes it (WprUse) if and
\* only if it carries the UUID of the running one, and then the running
\* xaction's phase goes from begin to commit; with another UUID it gets the
\* use-previous error and the running xaction is as it was
C38_RenewSameUuidOnly ==
  (call.fn = "renew" /\ call.last.op = "prevRunning") =>
    LET l == call.last IN
      /\ l.wpr = "WprUse" <=> l.uuid = l.before.uuid
      /\ l.wpr = "WprUse" =>
           /\ l.err = "" /\ ~l.panic
           /\ l.before.args.Phase = "begin" /\ l.after.args.Phase = "commit"
           /\ l.after.uuid = l.before.uuid
      /\ l.uuid # l.before.uuid => l.err = "ErrXactUsePrev" /\ l.after = l.before

\* a commit that took the running xaction after another transaction's begin
\* was turned away
C38_Witness ==
  /\ call.fn = "renew" /\ call.last.op = "prevRunning" /\ call.last.wpr = "WprUse"
  /\ call.entry.args.Phase = "commit"
  /\ \E u \in RenewUuids : call.st[u] = "rejected"

\* C39: with the dry-run flag the list, range and multi-object handlers of
\* remove, prefetch and evict make no call that changes the cluster
C39_DryRunMutatesNothing ==
  (call.fn \in CliHandlers /\ call.out # <<>> /\ call.in.dry) =>
    \A i \in 1..Len(call.out[1].calls) : call.out[1].calls[i] \notin MutatingCalls

====
